---- MODULE Spec2Model ----
(***************************************************************************)
(* Query and mutation generation of crud-generator: gormparser.TableBuilder,*)
(* generator.QueryGenerator / CRUDGenerator, validator.Validator,          *)
(* builder.CRUDBuilder and services.CRUDService.                           *)
(*                                                                         *)
(* A call is one step: the caller picks the arguments, the handler runs to *)
(* its return and the response is left in `last`; Respond hands it back.   *)
(***************************************************************************)
EXTENDS Integers, Sequences, FiniteSets, TLC

VARIABLES
    pc,         \* "ready" (no call in progress) or "returned" (response in last)
    tableInfo,  \* gormparser.TableInfo held by the TableBuilder
    schema,     \* types.TableSchema held by the generators
    config,     \* the table configuration (types.Config / models.TableConfiguration)
    rows,       \* contents of the target table
    configurations, \* the table_configurations rows of the main database, by id
    manager,    \* the DatabaseManager: pool, its mutex, dbConfigs, the handles opened
    goroutines, \* the calls in progress that run concurrently, one per goroutine
    last        \* the last call: its arguments and what it returned

vars == <<pc, tableInfo, schema, config, rows, configurations, manager, goroutines, last>>

----------------------------------------------------------------------------
(* Bounds of the model *)

\* longest sort list of a request
MaxSortLen == 2
\* longest value array of a request (in / between / multi)
MaxValues == 2
\* most rows the target table holds
MaxRows == 1

----------------------------------------------------------------------------
(* Go values (interface{}) of requests and rows *)

\* a string is the sequence of its characters
StrV(chars) == [t |-> "str", s |-> chars]
IntV(n) == [t |-> "int", n |-> n]
Nil == [t |-> "nil"]
Arr(elems) == [t |-> "arr", a |-> elems]
Obj(m) == [t |-> "map", m |-> m]

IsStr(v) == v.t = "str"
IsInt(v) == v.t = "int"
IsNil(v) == v.t = "nil"
IsArr(v) == v.t = "arr"
IsObj(v) == v.t = "map"

SeqToSet(s) == {s[i] : i \in 1..Len(s)}

\* all sequences over S of length at most n
RECURSIVE SeqsUpTo(_, _)
SeqsUpTo(S, n) ==
    IF n = 0 THEN {<<>>}
    ELSE LET shorter == SeqsUpTo(S, n - 1)
         IN shorter \cup {Append(q, x) : q \in {r \in shorter : Len(r) = n - 1}, x \in S}

\* all orders in which the keys of a Go map can be visited by range
RECURSIVE Orders(_)
Orders(S) ==
    IF S = {} THEN {<<>>}
    ELSE UNION {{<<x>> \o q : q \in Orders(S \ {x})} : x \in S}

\* strings.Join
RECURSIVE Join(_, _)
Join(parts, sep) ==
    IF Len(parts) = 0 THEN <<>>
    ELSE IF Len(parts) = 1 THEN parts[1]
    ELSE parts[1] \o sep \o Join(Tail(parts), sep)

RECURSIVE Flatten(_)
Flatten(ss) == IF Len(ss) = 0 THEN <<>> ELSE ss[1] \o Flatten(Tail(ss))

----------------------------------------------------------------------------
(* Go's int on a 64-bit build: eight base-256 digits, least significant    *)
(* first, two's complement; arithmetic wraps modulo 2^64.                  *)

Digits(n, k) == [i \in 1..k |-> (n \div (256 ^ (i - 1))) % 256]

\* the int with the (small) value n
GoInt(n) ==
    IF n >= 0 THEN [i \in 1..8 |-> IF i <= 3 THEN Digits(n, 3)[i] ELSE 0]
    ELSE [i \in 1..8 |-> IF i <= 3 THEN 255 - Digits(-n - 1, 3)[i] ELSE 255]

MaxInt64 == [i \in 1..8 |-> IF i = 8 THEN 127 ELSE 255]

IsNeg(x) == x[8] >= 128

RECURSIVE ULess(_, _, _)
ULess(x, y, i) ==
    IF i = 0 THEN FALSE
    ELSE IF x[i] # y[i] THEN x[i] < y[i]
    ELSE ULess(x, y, i - 1)

\* x < y, x <= y on ints
Less(x, y) == IF IsNeg(x) # IsNeg(y) THEN IsNeg(x) ELSE ULess(x, y, 8)
Leq(x, y) == x = y \/ Less(x, y)

RECURSIVE AddFrom(_, _, _, _)
AddFrom(x, y, i, carry) ==
    IF i > 8 THEN <<>>
    ELSE LET s == x[i] + y[i] + carry
         IN <<s % 256>> \o AddFrom(x, y, i + 1, s \div 256)

\* x + y, x - 1 on ints (wrapping)
Add(x, y) == AddFrom(x, y, 1, 0)
Dec(x) == Add(x, GoInt(-1))

RECURSIVE ColSum(_, _, _, _)
ColSum(x, y, k, i) ==
    IF i > k THEN 0 ELSE x[i] * y[k + 1 - i] + ColSum(x, y, k, i + 1)

RECURSIVE MulFrom(_, _, _, _, _)
MulFrom(x, y, k, carry, n) ==
    IF k > n THEN <<>>
    ELSE LET s == ColSum(x, y, k, 1) + carry
         IN <<s % 256>> \o MulFrom(x, y, k + 1, s \div 256, n)

\* x * y on ints (wrapping: the low eight digits of the product)
Mul(x, y) == MulFrom(x, y, 1, 0, 8)

\* the product of two non-negative ints as a natural number of sixteen digits
Widen(x) == [i \in 1..16 |-> IF i <= 8 THEN x[i] ELSE 0]
ExactMul(x, y) == MulFrom(Widen(x), Widen(y), 1, 0, 16)

----------------------------------------------------------------------------
(* gormparser: the parsed struct *)

FilterEqual == "="
FilterIn == "in"
FilterNotIn == "not_in"
FilterLike == "like"
FilterGT == ">"
FilterGTE == ">="
FilterLT == "<"
FilterLTE == "<="
FilterBetween == "between"

FieldInfo(name, column, pk, autoIncr, filters, sortable) ==
    [Name |-> name, ColumnName |-> column, IsPrimaryKey |-> pk, IsAutoIncr |-> autoIncr,
     Filters |-> filters, Sortable |-> sortable]

\* ParseStruct(&ExtendedUser{}), fields ID, Username, Age, Status, Password
ExtendedUserFields(withKey) ==
    << FieldInfo("ID", "id", withKey, TRUE, <<>>, FALSE),
       FieldInfo("Username", "username", FALSE, FALSE, <<FilterEqual, FilterLike>>, TRUE),
       FieldInfo("Age", "age", FALSE, FALSE,
                 <<FilterEqual, FilterGT, FilterGTE, FilterLT, FilterLTE, FilterBetween>>, TRUE),
       FieldInfo("Status", "status", FALSE, FALSE, <<FilterEqual, FilterIn, FilterNotIn>>, TRUE),
       FieldInfo("Password", "password", FALSE, FALSE, <<>>, FALSE) >>

\* the TableInfo ParseStruct builds: Fields, FieldMap by field name, PrimaryKey columns
TableInfoOf(name, fields) ==
    [Name |-> name,
     Fields |-> fields,
     FieldMap |-> [n \in {fields[i].Name : i \in 1..Len(fields)} |->
                     (CHOOSE f \in SeqToSet(fields) : f.Name = n)],
     PrimaryKey |-> LET keys == SelectSeq(fields, LAMBDA f : f.IsPrimaryKey)
                    IN [i \in 1..Len(keys) |-> keys[i].ColumnName]]

TableInfos ==
    { TableInfoOf("extended_user", ExtendedUserFields(TRUE)),
      TableInfoOf("extended_user", ExtendedUserFields(FALSE)) }

----------------------------------------------------------------------------
(* gormparser.TableBuilder *)

NoError == [failed |-> FALSE]
Error(msg) == [failed |-> TRUE, msg |-> msg]

\* buildSelectFields: the columns to select, or the first unknown field
RECURSIVE SelectColumns(_, _)
SelectColumns(ti, requestFields) ==
    IF Len(requestFields) = 0 THEN [err |-> NoError, fields |-> <<>>]
    ELSE IF Head(requestFields) \in DOMAIN ti.FieldMap
    THEN LET rest == SelectColumns(ti, Tail(requestFields))
         IN IF rest.err.failed THEN rest
            ELSE [err |-> NoError,
                  fields |-> <<ti.FieldMap[Head(requestFields)].ColumnName>> \o rest.fields]
    ELSE [err |-> Error("field not found"), fields |-> <<>>]

buildSelectFields(ti, requestFields) ==
    IF Len(requestFields) = 0
    THEN [err |-> NoError, fields |-> [i \in 1..Len(ti.Fields) |-> ti.Fields[i].ColumnName]]
    ELSE SelectColumns(ti, requestFields)

\* a fieldSupportsFilter that allows every filter type on every field
fieldSupportsAnyFilter(field, filterType) == TRUE

fieldSupportsFilter(field, filterType) ==
    \E i \in 1..Len(field.Filters) : field.Filters[i] = filterType

Placeholders(n) == Join([i \in 1..n |-> <<"?">>], <<", ">>)

\* buildFilterCondition: the text of one condition and its arguments
buildFilterCondition(field, filter) ==
    LET one(op) == [err |-> NoError, cond |-> <<field.ColumnName, op, "?">>,
                    args |-> <<filter.Value>>]
    IN CASE filter.Type = FilterEqual -> one(" = ")
         [] filter.Type = FilterIn ->
              IF Len(filter.Values) = 0
              THEN [err |-> Error("in filter requires values"), cond |-> <<>>, args |-> <<>>]
              ELSE [err |-> NoError,
                    cond |-> <<field.ColumnName, " IN (">> \o Placeholders(Len(filter.Values))
                             \o <<")">>,
                    args |-> filter.Values]
         [] filter.Type = FilterNotIn ->
              IF Len(filter.Values) = 0
              THEN [err |-> Error("not_in filter requires values"), cond |-> <<>>, args |-> <<>>]
              ELSE [err |-> NoError,
                    cond |-> <<field.ColumnName, " NOT IN (">>
                             \o Placeholders(Len(filter.Values)) \o <<")">>,
                    args |-> filter.Values]
         [] filter.Type = FilterLike -> one(" LIKE ")
         [] filter.Type = FilterGT -> one(" > ")
         [] filter.Type = FilterGTE -> one(" >= ")
         [] filter.Type = FilterLT -> one(" < ")
         [] filter.Type = FilterLTE -> one(" <= ")
         [] filter.Type = FilterBetween ->
              IF Len(filter.Values) # 2
              THEN [err |-> Error("between filter requires exactly 2 values"),
                    cond |-> <<>>, args |-> <<>>]
              ELSE [err |-> NoError, cond |-> <<field.ColumnName, " BETWEEN ? AND ?">>,
                    args |-> filter.Values]
         [] OTHER -> [err |-> Error("unsupported filter type"), cond |-> <<>>, args |-> <<>>]

\* the loop of buildWhereClause over the filters map, visited in `order`
RECURSIVE WhereLoop(_, _, _)
WhereLoop(ti, filters, order) ==
    IF Len(order) = 0 THEN [err |-> NoError, conds |-> <<>>, args |-> <<>>]
    ELSE LET fieldName == Head(order)
             filter == filters[fieldName]
         IN IF fieldName \notin DOMAIN ti.FieldMap
            THEN [err |-> Error("field not found"), conds |-> <<>>, args |-> <<>>]
            ELSE IF ~fieldSupportsFilter(ti.FieldMap[fieldName], filter.Type)
            THEN [err |-> Error("field does not support filter type"),
                  conds |-> <<>>, args |-> <<>>]
            ELSE LET c == buildFilterCondition(ti.FieldMap[fieldName], filter)
                 IN IF c.err.failed THEN [err |-> c.err, conds |-> <<>>, args |-> <<>>]
                    ELSE LET rest == WhereLoop(ti, filters, Tail(order))
                         IN IF rest.err.failed THEN rest
                            ELSE [err |-> NoError, conds |-> <<c.cond>> \o rest.conds,
                                  args |-> c.args \o rest.args]

buildWhereClause(ti, filters, order) ==
    IF DOMAIN filters = {} THEN [err |-> NoError, clause |-> <<>>, args |-> <<>>]
    ELSE LET w == WhereLoop(ti, filters, order)
         IN IF w.err.failed THEN [err |-> w.err, clause |-> <<>>, args |-> <<>>]
            ELSE [err |-> NoError, clause |-> Join(w.conds, <<" AND ">>), args |-> w.args]

\* the loop of buildOrderClause
RECURSIVE OrderLoop(_, _)
OrderLoop(ti, sorts) ==
    IF Len(sorts) = 0 THEN [err |-> NoError, parts |-> <<>>]
    ELSE LET sort == Head(sorts)
         IN IF sort.Field \notin DOMAIN ti.FieldMap
            THEN [err |-> Error("field not found"), parts |-> <<>>]
            ELSE IF ~ti.FieldMap[sort.Field].Sortable
            THEN [err |-> Error("field is not sortable"), parts |-> <<>>]
            ELSE LET rest == OrderLoop(ti, Tail(sorts))
                     part == <<ti.FieldMap[sort.Field].ColumnName,
                               IF sort.Desc THEN " DESC" ELSE " ASC">>
                 IN IF rest.err.failed THEN rest
                    ELSE [err |-> NoError, parts |-> <<part>> \o rest.parts]

buildOrderClause(ti, sorts) ==
    IF Len(sorts) = 0 THEN [err |-> NoError, clause |-> <<>>]
    ELSE LET o == OrderLoop(ti, sorts)
         IN IF o.err.failed THEN [err |-> o.err, clause |-> <<>>]
            ELSE [err |-> NoError, clause |-> Join(o.parts, <<", ">>)]

DefaultPageSize == 10
MaxPageSize == 1000

\* the page and page size List works with
ListPage(page) == IF Leq(page, GoInt(0)) THEN GoInt(1) ELSE page
ListPageSize(pageSize) ==
    IF Leq(pageSize, GoInt(0)) THEN GoInt(DefaultPageSize)
    ELSE IF Less(GoInt(MaxPageSize), pageSize) THEN GoInt(MaxPageSize)
    ELSE pageSize

\* TableBuilder.List: the response (SQL text with the numbers its %d verbs print,
\* arguments, fields) or the first error; `order` is the order in which range
\* visits req.Filters
List(ti, req, order) ==
    LET page == ListPage(req.Page)
        pageSize == ListPageSize(req.PageSize)
        f == buildSelectFields(ti, req.Fields)
        w == buildWhereClause(ti, req.Filters, order)
        o == buildOrderClause(ti, req.Sort)
        errors == (IF f.err.failed THEN <<f.err>> ELSE <<>>)
                  \o (IF w.err.failed THEN <<w.err>> ELSE <<>>)
                  \o (IF o.err.failed THEN <<o.err>> ELSE <<>>)
        offset == Mul(Dec(page), pageSize)
    IN IF Len(errors) > 0 THEN [err |-> errors[1], resp |-> Nil]
       ELSE [err |-> NoError,
             resp |-> [SQL |-> <<"SELECT ">> \o Join([i \in 1..Len(f.fields) |-> <<f.fields[i]>>],
                                                     <<", ">>)
                               \o <<" FROM ", ti.Name>>
                               \o (IF w.clause # <<>> THEN <<" WHERE ">> \o w.clause ELSE <<>>)
                               \o (IF o.clause # <<>> THEN <<" ORDER BY ">> \o o.clause
                                   ELSE <<>>)
                               \o <<" LIMIT ", "%d", " OFFSET ", "%d">>,
                       Nums |-> <<pageSize, offset>>,
                       Args |-> w.args,
                       Fields |-> f.fields]]

----------------------------------------------------------------------------
(* fmt *)

DigitChars == <<"0", "1", "2", "3", "4", "5", "6", "7", "8", "9">>

\* the decimal digits %d prints for n >= 0
RECURSIVE Decimal(_)
Decimal(n) == IF n < 10 THEN <<DigitChars[n + 1]>>
              ELSE Decimal(n \div 10) \o <<DigitChars[(n % 10) + 1]>>

\* the map keys of the requests, in the sorted order fmt prints a map in
KeyChars(k) ==
    CASE k = "end" -> <<"e", "n", "d">>
      [] k = "max" -> <<"m", "a", "x">>
      [] k = "min" -> <<"m", "i", "n">>
      [] k = "start" -> <<"s", "t", "a", "r", "t">>
SortedKeys(K) == SelectSeq(<<"end", "max", "min", "start">>, LAMBDA k : k \in K)

\* fmt.Sprintf("%v", v): the characters printed
RECURSIVE Sprint(_)
Sprint(v) ==
    CASE IsStr(v) -> v.s
      [] IsInt(v) -> IF v.n < 0 THEN <<"-">> \o Decimal(-v.n) ELSE Decimal(v.n)
      [] IsNil(v) -> <<"<", "n", "i", "l", ">">>
      [] IsArr(v) -> <<"[">> \o Join([i \in 1..Len(v.a) |-> Sprint(v.a[i])], <<" ">>) \o <<"]">>
      [] IsObj(v) -> LET ks == SortedKeys(DOMAIN v.m)
                    IN <<"m", "a", "p", "[">>
                       \o Join([i \in 1..Len(ks) |-> KeyChars(ks[i]) \o <<":">> \o Sprint(v.m[ks[i]])],
                               <<" ">>)
                       \o <<"]">>

----------------------------------------------------------------------------
(* types: the configuration *)

SearchTypeFuzzy == "fuzzy"
SearchTypeExact == "exact"
SearchTypeMulti == "multi"
SearchTypeSingle == "single"
SearchTypeRange == "range"
SearchTypeMultiSelect == "multi_select"
SearchTypeDateRange == "date_range"

SortOrderASC == "ASC"
SortOrderDESC == "DESC"

SearchField(field, type) == [Field |-> field, Type |-> type]

\* g.config.QueryConfig != nil
HasQueryConfig(cfg) == cfg.QueryConfig.t # "nil"

\* ConfigService.ConvertToLegacyConfig: the types.Config of a stored configuration row.
\* A stored JSON list is held decoded; the empty list stands for the empty string.
ConvertToLegacyConfig(row) ==
    [TableName |-> row.DBTableName,
     QueryConfig |->
        IF row.QuerySearchFields # <<>> \/ row.QuerySortableFields # <<>>
        THEN [t |-> "QueryConfig", Pagination |-> row.QueryPagination,
              SearchFields |-> row.QuerySearchFields,
              SortableFields |-> row.QuerySortableFields]
        ELSE Nil,
     CreateConfig |->
        IF row.CreateCreatableFields # <<>>
        THEN [t |-> "CreateConfig", CreatableFields |-> row.CreateCreatableFields]
        ELSE Nil,
     UpdateConfig |->
        IF row.UpdateUpdatableFields # <<>>
        THEN [t |-> "UpdateConfig", UpdatableFields |-> row.UpdateUpdatableFields]
        ELSE Nil]

----------------------------------------------------------------------------
(* generator.QueryGenerator *)

\* a buildFieldCondition that writes the value into the condition text
buildFieldConditionInline(fieldName, value, searchField, argIndex) ==
    [err |-> NoError, cond |-> <<fieldName, " = '">> \o Sprint(value) \o <<"'">>,
     args |-> <<>>, argIndex |-> argIndex]

\* buildFieldCondition: the condition text ("" when none), its arguments, the next index
buildFieldCondition(fieldName, value, searchField, argIndex) ==
    LET none == [err |-> NoError, cond |-> <<>>, args |-> <<>>, argIndex |-> argIndex]
        equals == [err |-> NoError, cond |-> <<fieldName, " = $">> \o Decimal(argIndex),
                   args |-> <<value>>, argIndex |-> argIndex + 1]
    IN CASE searchField.Type = SearchTypeFuzzy ->
              IF Sprint(value) # <<>>
              THEN [err |-> NoError, cond |-> <<fieldName, " ILIKE $">> \o Decimal(argIndex),
                    args |-> <<StrV(<<"%">> \o Sprint(value) \o <<"%">>)>>,
                    argIndex |-> argIndex + 1]
              ELSE none
         [] searchField.Type = SearchTypeExact -> equals
         [] searchField.Type = SearchTypeMulti ->
              IF IsArr(value) /\ Len(value.a) > 0
              THEN [err |-> NoError,
                    cond |-> <<fieldName, " IN (">>
                             \o Join([i \in 1..Len(value.a) |->
                                        <<"$">> \o Decimal(argIndex + i - 1)], <<", ">>)
                             \o <<")">>,
                    args |-> value.a, argIndex |-> argIndex + Len(value.a)]
              ELSE none
         [] searchField.Type = SearchTypeSingle -> equals
         [] searchField.Type = SearchTypeRange ->
              IF IsObj(value)
              THEN LET hasMin == "min" \in DOMAIN value.m /\ ~IsNil(value.m["min"])
                       hasMax == "max" \in DOMAIN value.m /\ ~IsNil(value.m["max"])
                       maxIndex == IF hasMin THEN argIndex + 1 ELSE argIndex
                       rangeConds ==
                           (IF hasMin THEN << <<fieldName, " >= $">> \o Decimal(argIndex) >>
                            ELSE <<>>)
                           \o (IF hasMax THEN << <<fieldName, " <= $">> \o Decimal(maxIndex) >>
                               ELSE <<>>)
                   IN [err |-> NoError,
                       cond |-> Join(rangeConds, <<" AND ">>),
                       args |-> (IF hasMin THEN <<value.m["min"]>> ELSE <<>>)
                                \o (IF hasMax THEN <<value.m["max"]>> ELSE <<>>),
                       argIndex |-> IF hasMax THEN maxIndex + 1 ELSE maxIndex]
              ELSE none
         [] OTHER -> [err |-> Error("unsupported search type"), cond |-> <<>>, args |-> <<>>,
                      argIndex |-> argIndex]

\* searchFieldMap: the last configured search field of each name
SearchFieldOf(cfg, fieldName) ==
    LET fs == cfg.QueryConfig.SearchFields
        at == {i \in 1..Len(fs) : fs[i].Field = fieldName}
    IN fs[CHOOSE i \in at : \A j \in at : j <= i]

IsSearchField(cfg, fieldName) ==
    /\ HasQueryConfig(cfg)
    /\ \E i \in 1..Len(cfg.QueryConfig.SearchFields) :
          cfg.QueryConfig.SearchFields[i].Field = fieldName

\* the loop of buildSearchConditions over the search map, visited in `order`
RECURSIVE SearchLoop(_, _, _, _)
SearchLoop(cfg, search, order, argIndex) ==
    IF Len(order) = 0
    THEN [err |-> NoError, conds |-> <<>>, args |-> <<>>, argIndex |-> argIndex]
    ELSE LET fieldName == Head(order)
             value == search[fieldName]
         IN IF IsNil(value) \/ ~IsSearchField(cfg, fieldName)
            THEN SearchLoop(cfg, search, Tail(order), argIndex)
            ELSE LET c == buildFieldCondition(fieldName, value,
                                              SearchFieldOf(cfg, fieldName), argIndex)
                 IN IF c.err.failed
                    THEN [err |-> c.err, conds |-> <<>>, args |-> <<>>, argIndex |-> 0]
                    ELSE IF c.cond # <<>>
                    THEN LET rest == SearchLoop(cfg, search, Tail(order), c.argIndex)
                         IN IF rest.err.failed THEN rest
                            ELSE [err |-> NoError, conds |-> <<c.cond>> \o rest.conds,
                                  args |-> c.args \o rest.args, argIndex |-> rest.argIndex]
                    ELSE SearchLoop(cfg, search, Tail(order), argIndex)

buildSearchConditions(cfg, search, order, startArgIndex) ==
    SearchLoop(cfg, search, order, startArgIndex)

\* GenerateQuery: query, count query (texts with the numbers their %d verbs print) and
\* arguments, or an error; `order` is the order in which range visits params.Search
GenerateQuery(sch, cfg, params, order) ==
    LET searching == DOMAIN params.Search # {} /\ HasQueryConfig(cfg)
        c == IF searching THEN buildSearchConditions(cfg, params.Search, order, 1)
             ELSE [err |-> NoError, conds |-> <<>>, args |-> <<>>, argIndex |-> 1]
        whereClause == IF Len(c.conds) > 0 THEN <<" WHERE ">> \o Join(c.conds, <<" AND ">>)
                       ELSE <<>>
        \* the order clause is never built: the call to buildOrderClause is commented out
        orderClause == <<>>
        paginated == HasQueryConfig(cfg) /\ cfg.QueryConfig.Pagination
        offset == Mul(Dec(params.Page), params.PageSize)
    IN IF c.err.failed
       THEN [err |-> c.err, query |-> <<>>, countQuery |-> <<>>, nums |-> <<>>, args |-> <<>>]
       ELSE [err |-> NoError,
             query |-> <<"SELECT * FROM ", sch.TableName>> \o whereClause \o orderClause
                       \o (IF paginated THEN <<" LIMIT ", "%d", " OFFSET ", "%d">> ELSE <<>>),
             countQuery |-> <<"SELECT COUNT(*) FROM ", sch.TableName>> \o whereClause,
             nums |-> IF paginated THEN <<params.PageSize, offset>> ELSE <<>>,
             args |-> c.args]

----------------------------------------------------------------------------
(* encoding/json on the request strings of the model *)

JSONMinOnly == <<"{", "\"", "m", "i", "n", "\"", ":", "1", "}">>
JSONStartOnly == <<"{", "\"", "s", "t", "a", "r", "t", "\"", ":", "1", "}">>
JSONOneString == <<"[", "\"", "a", "\"", "]">>

\* json.Unmarshal([]byte(s), &map[string]interface{})
UnmarshalObject(chars) ==
    CASE chars = JSONMinOnly -> [ok |-> TRUE, m |-> [k \in {"min"} |-> IntV(1)]]
      [] chars = JSONStartOnly -> [ok |-> TRUE, m |-> [k \in {"start"} |-> IntV(1)]]
      [] OTHER -> [ok |-> FALSE, m |-> <<>>]

\* json.Unmarshal([]byte(s), &[]string)
UnmarshalStrings(chars) ==
    CASE chars = JSONOneString -> [ok |-> TRUE, a |-> <<StrV(<<"a">>)>>]
      [] OTHER -> [ok |-> FALSE, a |-> <<>>]

----------------------------------------------------------------------------
(* services.CRUDService.List *)

Where(text, args) == [text |-> text, args |-> args]

\* the two bounds of a range / date_range value, as Where calls
RangeWheres(field, value, lower, upper) ==
    LET direct == IsObj(value)
        parsed == IF IsStr(value) /\ value.s # <<>> THEN UnmarshalObject(value.s)
                  ELSE [ok |-> TRUE, m |-> <<>>]
        skip == ~direct /\ ~parsed.ok
        m == IF direct THEN value.m ELSE parsed.m
        has(k) == k \in DOMAIN m /\ ~IsNil(m[k])
    IN IF skip THEN <<>>
       ELSE (IF has(lower) THEN <<Where(<<field, " >= ?">>, <<m[lower]>>)>> ELSE <<>>)
            \o (IF has(upper) THEN <<Where(<<field, " <= ?">>, <<m[upper]>>)>> ELSE <<>>)

\* the Where calls List makes for one configured search field
SearchWheres(searchField, search) ==
    LET field == searchField.Field
        value == search[field]
    IN IF field \notin DOMAIN search \/ IsNil(search[field]) THEN <<>>
       ELSE CASE searchField.Type = SearchTypeFuzzy ->
                   <<Where(<<field, " ILIKE ?">>, <<StrV(<<"%">> \o Sprint(value) \o <<"%">>)>>)>>
              [] searchField.Type = SearchTypeExact ->
                   <<Where(<<field, " = ?">>, <<value>>)>>
              [] searchField.Type = SearchTypeRange -> RangeWheres(field, value, "min", "max")
              [] searchField.Type \in {SearchTypeSingle, SearchTypeMulti} ->
                   <<Where(<<field, " = ?">>, <<value>>)>>
              [] searchField.Type = SearchTypeMultiSelect ->
                   LET values ==
                         IF IsArr(value) /\ Len(value.a) > 0 THEN value.a
                         ELSE IF IsStr(value) /\ value.s # <<>>
                         THEN UnmarshalStrings(value.s).a
                         ELSE <<>>
                   IN IF Len(values) > 0 THEN <<Where(<<field, " IN ?">>, <<Arr(values)>>)>>
                      ELSE <<>>
              [] searchField.Type = SearchTypeDateRange ->
                   RangeWheres(field, value, "start", "end")
              [] OTHER -> <<>>

\* the Order calls List makes: entries outside a non-empty whitelist are skipped
SortOrders(sortableFields, sorts) ==
    LET allowed(f) == Len(sortableFields) = 0 \/ f \in SeqToSet(sortableFields)
        kept == SelectSeq(sorts, LAMBDA e : allowed(e.Field))
    IN [i \in 1..Len(kept) |->
          <<kept[i].Field, " ", IF kept[i].Order = SortOrderDESC THEN "DESC" ELSE "ASC">>]

\* CRUDService.List. env: fault (which collaborator call fails, if any) and total
\* (the count the database answers). Returns err, result and the statements run.
ServiceList(row, params, env) ==
    LET wheres == IF Len(row.QuerySearchFields) > 0
                  THEN Flatten([i \in 1..Len(row.QuerySearchFields) |->
                                  SearchWheres(row.QuerySearchFields[i], params.Search)])
                  ELSE <<>>
        orders == SortOrders(row.QuerySortableFields, params.Sort)
        paged == row.QueryPagination /\ Less(GoInt(0), params.Page)
                 /\ Less(GoInt(0), params.PageSize)
        count == [kind |-> "count", table |-> row.DBTableName, wheres |-> wheres,
                  orders |-> orders, paged |-> FALSE, nums |-> <<>>]
        find == [kind |-> "find", table |-> row.DBTableName, wheres |-> wheres,
                 orders |-> orders, paged |-> paged,
                 nums |-> IF paged THEN <<params.PageSize, Mul(Dec(params.Page), params.PageSize)>>
                          ELSE <<>>]
    IN CASE ~row.IsActive \/ env.fault = "config" ->
              [err |-> Error("configuration not found"), result |-> Nil, executed |-> <<>>]
         [] env.fault = "connection" ->
              [err |-> Error("failed to get database connection"), result |-> Nil,
               executed |-> <<>>]
         [] env.fault = "count" ->
              [err |-> Error("failed to count records"), result |-> Nil,
               executed |-> <<count>>]
         [] env.fault = "find" ->
              [err |-> Error("failed to query records"), result |-> Nil,
               executed |-> <<count, find>>]
         [] OTHER ->
              [err |-> NoError,
               result |-> [Total |-> env.total,
                           Page |-> IF paged THEN params.Page ELSE GoInt(1),
                           PageSize |-> IF paged THEN params.PageSize ELSE GoInt(env.total)],
               executed |-> <<count, find>>]

----------------------------------------------------------------------------
(* builder.CRUDBuilder.Query *)

BuilderDefaultPageSize == 20

\* the defaulting at the head of Query
QueryParamsOf(params) ==
    [params EXCEPT !.PageSize = IF Leq(params.PageSize, GoInt(0))
                                THEN GoInt(BuilderDefaultPageSize) ELSE params.PageSize,
                   !.Page = IF Leq(params.Page, GoInt(0)) THEN GoInt(1) ELSE params.Page]

\* CRUDBuilder.Query on the builder's schema and configuration
BuilderQuery(sch, cfg, params0, order, env) ==
    LET params == QueryParamsOf(params0)
        g == GenerateQuery(sch, cfg, params, order)
        count == [kind |-> "count", text |-> g.countQuery, nums |-> <<>>, args |-> g.args]
        find == [kind |-> "find", text |-> g.query, nums |-> g.nums, args |-> g.args]
    IN CASE env.fault = "config" ->
              [err |-> Error("failed to get table configuration"), result |-> Nil,
               executed |-> <<>>]
         [] env.fault = "connection" ->
              [err |-> Error("failed to get database connection"), result |-> Nil,
               executed |-> <<>>]
         [] g.err.failed ->
              [err |-> Error("failed to generate query"), result |-> Nil, executed |-> <<>>]
         [] env.fault = "count" ->
              [err |-> Error("failed to count records"), result |-> Nil,
               executed |-> <<count>>]
         [] env.fault = "find" ->
              [err |-> Error("failed to execute query"), result |-> Nil,
               executed |-> <<count, find>>]
         [] OTHER ->
              [err |-> NoError,
               result |-> [Total |-> env.total, Page |-> params.Page,
                           PageSize |-> params.PageSize],
               executed |-> <<count, find>>]

----------------------------------------------------------------------------
(* The tables, configurations and requests of the model *)

TableField(name, pk) == [Name |-> name, PrimaryKey |-> pk]

\* users(id, name, age, status, is_admin), with or without its primary key
UsersSchema(withKey) ==
    [TableName |-> "users",
     Fields |-> << TableField("id", withKey), TableField("name", FALSE),
                   TableField("age", FALSE), TableField("status", FALSE),
                   TableField("is_admin", FALSE) >>]

ConfigRow(pagination, searchFields, sortableFields, creatableFields, updatableFields) ==
    [ID |-> 1, ConnectionID |-> "main", Name |-> "users", DBTableName |-> "users",
     IsActive |-> TRUE, Version |-> 1,
     QueryPagination |-> pagination,
     QuerySearchFields |-> searchFields,
     QuerySortableFields |-> sortableFields,
     CreateCreatableFields |-> creatableFields,
     UpdateUpdatableFields |-> updatableFields]

\* the configurations the list operations run under
ListConfigs ==
    { ConfigRow(TRUE, << SearchField("name", SearchTypeFuzzy), SearchField("age", SearchTypeRange),
                         SearchField("status", SearchTypeMulti) >>,
                <<"name", "age">>, <<>>, <<>>),
      ConfigRow(TRUE, << SearchField("name", SearchTypeExact),
                         SearchField("age", SearchTypeDateRange),
                         SearchField("status", SearchTypeMultiSelect) >>,
                <<>>, <<>>, <<>>),
      ConfigRow(FALSE, << SearchField("name", SearchTypeSingle) >>, <<"name">>, <<>>, <<>>),
      ConfigRow(TRUE, <<>>, <<>>, <<>>, <<>>) }

\* a string carrying SQL metacharacters
SQLMeta == StrV(<<"x", "'", ";", "-", "-">>)
Scalars == {StrV(<<>>), SQLMeta, IntV(18)}
ArrayElems == {SQLMeta, IntV(18)}
Arrays == SeqsUpTo(ArrayElems, MaxValues)

\* the maps with one key
OneKeyMaps(Keys, Values) == UNION {[{k} -> Values] : k \in Keys}

\* the maps with keys k1 and k2
TwoKeyMaps(k1, V1, k2, V2) ==
    {[k \in {k1, k2} |-> IF k = k1 THEN v1 ELSE v2] : v1 \in V1, v2 \in V2}

Pages == {GoInt(-1), GoInt(0), GoInt(1), GoInt(3), MaxInt64}
PageSizes == {GoInt(-1), GoInt(0), GoInt(7), GoInt(1000), GoInt(1001), MaxInt64}
Faults == {"none", "config", "connection", "count", "find"}

(* gormparser.ListRequest *)
FilterConds ==
    {[Type |-> t, Value |-> v, Values |-> <<>>] :
        t \in {FilterEqual, FilterLike, FilterGTE}, v \in Scalars}
    \cup {[Type |-> t, Value |-> Nil, Values |-> a] :
            t \in {FilterIn, FilterNotIn, FilterBetween}, a \in Arrays}

SortConditions ==
    {[Field |-> f, Desc |-> d] : f \in {"Username", "Age"}, d \in {FALSE}}
    \cup {[Field |-> "Age", Desc |-> TRUE], [Field |-> "Password", Desc |-> FALSE],
          [Field |-> "Ghost", Desc |-> FALSE]}

FieldLists == {<<>>, <<"ID", "Username">>, <<"Username", "Ghost">>}

ListRequest(page, pageSize, filters, sort, fields) ==
    [Page |-> page, PageSize |-> pageSize, Filters |-> filters, Sort |-> sort,
     Fields |-> fields]

Filter(type, value, values) == [Type |-> type, Value |-> value, Values |-> values]

\* requests that vary the filters
FilterRequests ==
    {ListRequest(GoInt(1), GoInt(10), fl, <<>>, <<>>) :
        fl \in {<<>>}
            \cup OneKeyMaps({"Username", "Age", "Status", "Ghost"}, FilterConds)
            \cup TwoKeyMaps("Username", {Filter(FilterEqual, v, <<>>) : v \in Scalars},
                            "Age", {Filter(FilterBetween, Nil, a) : a \in Arrays})}

\* requests that vary the page
PageRequests ==
    {ListRequest(p, ps, <<>>, so, <<>>) :
        p \in Pages, ps \in PageSizes, so \in SeqsUpTo(SortConditions, 1)}

\* requests that vary the sort and the selected fields
SortRequests ==
    {ListRequest(GoInt(1), GoInt(10), fl, so, fd) :
        fl \in {<<>>, [k \in {"Age"} |-> Filter(FilterBetween, Nil, <<IntV(18)>>)]},
        so \in SeqsUpTo(SortConditions, MaxSortLen),
        fd \in FieldLists}

ListRequests == FilterRequests \cup PageRequests \cup SortRequests

(* types.QueryParams *)
SearchValues ==
    {Nil} \cup Scalars \cup {Arr(a) : a \in Arrays}
    \cup {Obj(<<>>), Obj([k \in {"min"} |-> IntV(18)]), Obj([k \in {"max"} |-> IntV(18)]),
          Obj([k \in {"min", "max"} |-> IntV(18)]),
          Obj([k \in {"min", "max"} |-> IF k = "min" THEN Nil ELSE IntV(18)]),
          Obj([k \in {"start"} |-> IntV(18)]), Obj([k \in {"start", "end"} |-> IntV(18)])}
    \cup {StrV(JSONMinOnly), StrV(JSONOneString)}

SortFields ==
    {[Field |-> "name", Order |-> SortOrderASC], [Field |-> "age", Order |-> SortOrderDESC],
     [Field |-> "password", Order |-> ""], [Field |-> "name", Order |-> "sideways"]}

QueryParams(page, pageSize, search, sort) ==
    [Page |-> page, PageSize |-> pageSize, Search |-> search, Sort |-> sort]

\* requests that vary the search
SearchRequests ==
    {QueryParams(GoInt(1), GoInt(10), se, <<>>) :
        se \in {<<>>}
            \cup OneKeyMaps({"name", "age", "status", "ghost"}, SearchValues)
            \cup TwoKeyMaps("name", {Nil} \cup Scalars,
                            "age", {Nil, IntV(18), Obj([k \in {"min", "max"} |-> IntV(18)]),
                                    StrV(JSONMinOnly)})
            \cup TwoKeyMaps("name", {SQLMeta}, "status", {Arr(a) : a \in Arrays})}

\* requests that vary the page
PagingRequests ==
    {QueryParams(p, ps, se, so) :
        p \in Pages, ps \in PageSizes,
        se \in {<<>>, [k \in {"name"} |-> SQLMeta]},
        so \in SeqsUpTo(SortFields, 1)}

\* requests that vary the sort
SortingRequests ==
    {QueryParams(GoInt(2), GoInt(10), <<>>, so) : so \in SeqsUpTo(SortFields, MaxSortLen)}

QueryRequests == SearchRequests \cup PagingRequests \cup SortingRequests

\* what the database does with the statements of a call
Envs ==
    {[fault |-> "none", total |-> t] : t \in {0, MaxRows}}
    \cup {[fault |-> f, total |-> MaxRows] : f \in Faults}

----------------------------------------------------------------------------
(* The list operations as a state machine *)

Idle == [op |-> "none"]

\* GetDatabaseManager: an empty pool with its mutex free, no configuration loaded, no
\* memory configuration and no handle opened. `opened` lists the handles gorm.Open has
\* returned (handle h is opened[h]), `closed` the handles whose sql.DB has been closed,
\* `calls` counts the calls made, `crashed` says the runtime has aborted the program
NewManager ==
    [connections |-> <<>>, writer |-> 0, dbConfigs |-> {}, memoryConfigs |-> {},
     opened |-> <<>>, closed |-> {}, mainClosed |-> FALSE, calls |-> 0,
     crashed |-> FALSE]

InitList ==
    /\ pc = "ready"
    /\ tableInfo = TableInfoOf("extended_user", ExtendedUserFields(TRUE))
    /\ schema = UsersSchema(TRUE)
    /\ config \in ListConfigs
    /\ rows = <<>>
    /\ configurations = <<config>>
    /\ manager = NewManager
    /\ goroutines = <<>>
    /\ last = Idle

\* TableBuilder.List(req)
TableBuilderList ==
    /\ pc = "ready"
    /\ \E req \in ListRequests : \E order \in Orders(DOMAIN req.Filters) :
          last' = [op |-> "TableBuilder.List", req |-> req, order |-> order,
                   out |-> List(tableInfo, req, order)]
    /\ pc' = "returned"
    /\ UNCHANGED <<tableInfo, schema, config, rows, configurations, manager, goroutines>>

\* QueryGenerator.GenerateQuery(params)
GeneratorQuery ==
    /\ pc = "ready"
    /\ \E params \in QueryRequests : \E order \in Orders(DOMAIN params.Search) :
          last' = [op |-> "QueryGenerator.GenerateQuery", params |-> params, order |-> order,
                   out |-> GenerateQuery(schema, ConvertToLegacyConfig(config), params, order)]
    /\ pc' = "returned"
    /\ UNCHANGED <<tableInfo, schema, config, rows, configurations, manager, goroutines>>

\* CRUDBuilder.Query(params)
CRUDBuilderQuery ==
    /\ pc = "ready"
    /\ \E params \in PagingRequests : \E order \in Orders(DOMAIN params.Search) :
       \E env \in Envs :
          last' = [op |-> "CRUDBuilder.Query", params |-> params, order |-> order,
                   env |-> env,
                   out |-> BuilderQuery(schema, ConvertToLegacyConfig(config), params, order,
                                        env)]
    /\ pc' = "returned"
    /\ UNCHANGED <<tableInfo, schema, config, rows, configurations, manager, goroutines>>

\* CRUDService.List(configName, params)
CRUDServiceList ==
    /\ pc = "ready"
    /\ \E params \in QueryRequests : \E env \in Envs :
          last' = [op |-> "CRUDService.List", params |-> params, env |-> env,
                   out |-> ServiceList(config, params, env)]
    /\ pc' = "returned"
    /\ UNCHANGED <<tableInfo, schema, config, rows, configurations, manager, goroutines>>

\* the caller takes the response
Respond ==
    /\ pc = "returned"
    /\ pc' = "ready"
    /\ last' = Idle
    /\ UNCHANGED <<tableInfo, schema, config, rows, configurations, manager, goroutines>>

NextList ==
    \/ TableBuilderList
    \/ GeneratorQuery
    \/ CRUDBuilderQuery
    \/ CRUDServiceList
    \/ Respond

SpecList == InitList /\ [][NextList]_vars

----------------------------------------------------------------------------
(* Properties of the list operations *)

Returned(op) == pc = "returned" /\ last.op = op
Succeeded(op) == Returned(op) /\ ~last.out.err.failed

\* a request with every scalar value v replaced by f[v]
RECURSIVE MapValue(_, _)
MapValue(f, v) ==
    IF v \in DOMAIN f THEN f[v]
    ELSE IF IsArr(v) THEN Arr([i \in 1..Len(v.a) |-> MapValue(f, v.a[i])])
    ELSE IF IsObj(v) THEN Obj([k \in DOMAIN v.m |-> MapValue(f, v.m[k])])
    ELSE v

MapSearch(f, params) ==
    [params EXCEPT !.Search = [k \in DOMAIN params.Search |-> MapValue(f, params.Search[k])]]

MapFilters(f, req) ==
    [req EXCEPT !.Filters =
        [k \in DOMAIN req.Filters |->
            [Type |-> req.Filters[k].Type,
             Value |-> MapValue(f, req.Filters[k].Value),
             Values |-> [i \in 1..Len(req.Filters[k].Values) |->
                            MapValue(f, req.Filters[k].Values[i])]]]]

ValueMaps == [Scalars -> Scalars]

\* f keeps apart the values that print as the empty string and those that do not
KeepsEmptiness(f) == \A v \in DOMAIN f : (Sprint(v) = <<>>) <=> (Sprint(f[v]) = <<>>)

\* the statement texts a call produced
TextOfList(o) == IF o.err.failed THEN <<"error">> ELSE <<o.resp.SQL, o.resp.Nums>>
TextOfQuery(o) == IF o.err.failed THEN <<"error">> ELSE <<o.query, o.countQuery, o.nums>>
TextOfService(o) ==
    [i \in 1..Len(o.executed) |->
        <<o.executed[i].kind,
          [j \in 1..Len(o.executed[i].wheres) |-> o.executed[i].wheres[j].text],
          o.executed[i].orders, o.executed[i].nums>>]

RECURSIVE Pieces(_)
\* the values a request value supplies: itself, its elements, its bounds, and what
\* a string decodes to as JSON
Pieces(v) ==
    {v} \cup (IF IsArr(v) THEN UNION {Pieces(v.a[i]) : i \in 1..Len(v.a)}
              ELSE IF IsObj(v) THEN UNION {Pieces(v.m[k]) : k \in DOMAIN v.m}
              ELSE IF IsStr(v)
              THEN {UnmarshalObject(v.s).m[k] : k \in DOMAIN UnmarshalObject(v.s).m}
                   \cup {Arr(UnmarshalStrings(v.s).a)}
              ELSE {})

Wrapped(v) == StrV(<<"%">> \o Sprint(v) \o <<"%">>)

\* every argument is a supplied value, or a supplied value wrapped in % for a fuzzy search
ArgsSupplied(args, values) ==
    \A i \in 1..Len(args) :
        \E v \in values : args[i] \in Pieces(v) \/ args[i] = Wrapped(v)

TextIndependentOf(maps) ==
    /\ Succeeded("TableBuilder.List") =>
          /\ \A f \in maps :
                TextOfList(List(tableInfo, MapFilters(f, last.req), last.order))
                    = TextOfList(last.out)
          /\ ArgsSupplied(last.out.resp.Args,
                          UNION {{last.req.Filters[k].Value} \cup SeqToSet(last.req.Filters[k].Values)
                                    : k \in DOMAIN last.req.Filters})
    /\ Succeeded("QueryGenerator.GenerateQuery") =>
          /\ \A f \in maps :
                TextOfQuery(GenerateQuery(schema, ConvertToLegacyConfig(config),
                                          MapSearch(f, last.params), last.order))
                    = TextOfQuery(last.out)
          /\ ArgsSupplied(last.out.args,
                          {last.params.Search[k] : k \in DOMAIN last.params.Search})
    /\ Succeeded("CRUDService.List") =>
          /\ \A f \in maps :
                TextOfService(ServiceList(config, MapSearch(f, last.params), last.env))
                    = TextOfService(last.out)
          /\ \A i \in 1..Len(last.out.executed) : \A j \in 1..Len(last.out.executed[i].wheres) :
                ArgsSupplied(last.out.executed[i].wheres[j].args,
                             {last.params.Search[k] : k \in DOMAIN last.params.Search})

UnsortableEntry(e) ==
    \/ e.Field \notin SeqToSet(config.QuerySortableFields)
    \/ e.Order \notin {SortOrderASC, SortOrderDESC, ""}

C4_ServiceListRejectsBadSort ==
    (Returned("CRUDService.List")
        /\ \E i \in 1..Len(last.params.Sort) : UnsortableEntry(last.params.Sort[i]))
    => (last.out.err.failed /\ last.out.executed = <<>>)

\* C5: on a paginated configuration CRUDService.List and CRUDBuilder.Query page the
\* data query with LIMIT L OFFSET (P-1)*L and report PageSize L, where P is the page
\* (1 if page < 1) and L the page size (a default within 1..1000 if pageSize <= 0,
\* 1000 if pageSize > 1000)
ClampedTo(pageSize, limit) ==
    IF Leq(pageSize, GoInt(0)) THEN Less(GoInt(0), limit) /\ Leq(limit, GoInt(1000))
    ELSE IF Less(GoInt(1000), pageSize) THEN limit = GoInt(1000)
    ELSE limit = pageSize

C5_PaginationClamped ==
    \A op \in {"CRUDService.List", "CRUDBuilder.Query"} :
        (Succeeded(op) /\ config.QueryPagination) =>
            LET find == last.out.executed[2]
                P == IF Less(last.params.Page, GoInt(1)) THEN GoInt(1) ELSE last.params.Page
            IN /\ Len(find.nums) = 2
               /\ ClampedTo(last.params.PageSize, find.nums[1])
               /\ Widen(find.nums[2]) = ExactMul(Dec(P), find.nums[1])
               /\ last.out.result.PageSize = find.nums[1]

\* C6: TableBuilder.List prints LIMIT L OFFSET (P-1)*L for every page and pageSize,
\* P = page if page >= 1 else 1, L = 10 if pageSize <= 0, 1000 if pageSize > 1000,
\* else pageSize; so 1 <= L <= 1000 and the offset is not negative
C6_ListLimitOffset ==
    Succeeded("TableBuilder.List") =>
        LET P == IF Less(last.req.Page, GoInt(1)) THEN GoInt(1) ELSE last.req.Page
            L == IF Leq(last.req.PageSize, GoInt(0)) THEN GoInt(10)
                 ELSE IF Less(GoInt(1000), last.req.PageSize) THEN GoInt(1000)
                 ELSE last.req.PageSize
            nums == last.out.resp.Nums
        IN /\ nums[1] = L
           /\ Leq(GoInt(1), L) /\ Leq(L, GoInt(1000))
           /\ ~IsNeg(nums[2])
           /\ Widen(nums[2]) = ExactMul(Dec(P), L)

\* what C7 lists: a projection of a missing field, a filter on an unknown field, of a
\* type the field does not support, a between without exactly 2 values, an in/not_in
\* without values, a sort on an unknown or non-sortable field
FieldNames == {tableInfo.Fields[i].Name : i \in 1..Len(tableInfo.Fields)}
FieldNamed(name) == CHOOSE f \in SeqToSet(tableInfo.Fields) : f.Name = name

InvalidListRequest(req) ==
    \/ \E i \in 1..Len(req.Fields) : req.Fields[i] \notin FieldNames
    \/ \E k \in DOMAIN req.Filters :
          \/ k \notin FieldNames
          \/ req.Filters[k].Type \notin SeqToSet(FieldNamed(k).Filters)
          \/ req.Filters[k].Type = FilterBetween /\ Len(req.Filters[k].Values) # 2
          \/ req.Filters[k].Type \in {FilterIn, FilterNotIn} /\ Len(req.Filters[k].Values) = 0
    \/ \E i \in 1..Len(req.Sort) :
          \/ req.Sort[i].Field \notin FieldNames
          \/ ~FieldNamed(req.Sort[i].Field).Sortable

\* C7: TableBuilder.List answers an invalid request with an error and a nil response,
\* and answers with a response only a request that is not invalid
C7_ListRejectsInvalid ==
    Returned("TableBuilder.List") =>
        /\ InvalidListRequest(last.req) => (last.out.err.failed /\ last.out.resp = Nil)
        /\ last.out.resp # Nil => (~last.out.err.failed /\ ~InvalidListRequest(last.req))

\* a between filter with one value, on a field that supports between, was refused
C7_Witness ==
    /\ Returned("TableBuilder.List")
    /\ DOMAIN last.req.Filters = {"Age"}
    /\ last.req.Filters["Age"].Type = FilterBetween
    /\ Len(last.req.Filters["Age"].Values) = 1
    /\ last.req.Sort = <<>> /\ last.req.Fields = <<>>
    /\ last.out.err.failed /\ last.out.resp = Nil

----------------------------------------------------------------------------
(* types: the create and update configuration *)

\* types.FieldValidation; a nil *int is Nil, a pattern is "" when there is none
FieldValidation(minLength, maxLength, min, max, pattern) ==
    [t |-> "FieldValidation", MinLength |-> minLength, MaxLength |-> maxLength,
     Min |-> min, Max |-> max, Pattern |-> pattern]

CreatableField(field, required, defaultType, defaultValue, validation) ==
    [Field |-> field, Required |-> required, DefaultType |-> defaultType,
     DefaultValue |-> defaultValue, Validation |-> validation]

UpdatableField(field, required, validation) ==
    [Field |-> field, Required |-> required, Validation |-> validation]

ValidationError(field, tag, value, message) ==
    [Field |-> field, Tag |-> tag, Value |-> value, Message |-> message]

\* the names of a list of creatable or updatable fields
FieldsOf(fields) == {fields[i].Field : i \in 1..Len(fields)}

\* the entries of a Go map kept for the keys in K
Restrict(data, K) == [k \in DOMAIN data \cap K |-> data[k]]

----------------------------------------------------------------------------
(* regexp and strconv on the strings of the model *)

LowerChars == {"a", "b", "c", "d", "e", "f", "g", "h", "i", "j", "k", "l", "m", "n", "o",
               "p", "q", "r", "s", "t", "u", "v", "w", "x", "y", "z"}
LowerPattern == "^[a-z]+$"

\* regexp.MatchString(pattern, str)
MatchString(pattern, chars) ==
    CASE pattern = LowerPattern ->
            [err |-> FALSE,
             matched |-> Len(chars) >= 1 /\ \A i \in 1..Len(chars) : chars[i] \in LowerChars]
      [] OTHER -> [err |-> TRUE, matched |-> FALSE]

DigitOf(c) == CHOOSE d \in 0..9 : DigitChars[d + 1] = c

RECURSIVE DigitsValue(_)
DigitsValue(chars) ==
    IF Len(chars) = 0 THEN 0
    ELSE 10 * DigitsValue(SubSeq(chars, 1, Len(chars) - 1)) + DigitOf(chars[Len(chars)])

\* strconv.Atoi on a short string
Atoi(chars) ==
    LET signed == Len(chars) > 0 /\ chars[1] \in {"-", "+"}
        digits == IF signed THEN Tail(chars) ELSE chars
    IN IF Len(digits) = 0 \/ \E i \in 1..Len(digits) : digits[i] \notin SeqToSet(DigitChars)
       THEN [ok |-> FALSE, n |-> 0]
       ELSE [ok |-> TRUE,
             n |-> IF signed /\ chars[1] = "-" THEN - DigitsValue(digits)
                   ELSE DigitsValue(digits)]

----------------------------------------------------------------------------
(* SQL statements and the target table *)

\* a statement: its kind, table, the columns it writes, the columns of its WHERE
\* condition, the column it returns, and its bound arguments
Statement(kind, table, columns, where, returning, args) ==
    [kind |-> kind, table |-> table, columns |-> columns, where |-> where,
     returning |-> returning, args |-> args]

ColumnOrder == <<"age", "ghost", "id", "is_admin", "name", "status">>

\* the keys of a map in sorted order, as gorm writes the columns of a map
SortedColumns(K) == SelectSeq(ColumnOrder, LAMBDA k : k \in K)

FieldNamesOf(sch) == {sch.Fields[i].Name : i \in 1..Len(sch.Fields)}

MaxID(tbl) == IF DOMAIN tbl = {} THEN 0
               ELSE CHOOSE i \in DOMAIN tbl : \A j \in DOMAIN tbl : j <= i

\* the rows a statement's WHERE condition selects: all of them when it has none
Matching(tbl, stmt) ==
    IF Len(stmt.where) = 0 THEN DOMAIN tbl
    ELSE {i \in DOMAIN tbl : IntV(i) = stmt.args[Len(stmt.args)]}

Done(tbl, affected, id) ==
    [err |-> NoError, rows |-> tbl, rowsAffected |-> affected, id |-> id]
Failed(tbl, msg) == [err |-> Error(msg), rows |-> tbl, rowsAffected |-> 0, id |-> Nil]

\* what the database does with a statement on the table of schema sch; rows are keyed
\* by id, and the requests of the model never assign id in an update
Exec(sch, tbl, stmt, fault) ==
    LET written == [i \in {j \in 1..Len(stmt.columns) : stmt.columns[j] # "id"} |-> i]
        values == [c \in {stmt.columns[i] : i \in DOMAIN written} |->
                      stmt.args[CHOOSE i \in DOMAIN written : stmt.columns[i] = c]]
        given == {i \in 1..Len(stmt.columns) : stmt.columns[i] = "id"}
        key == IF given = {} THEN IntV(MaxID(tbl) + 1)
               ELSE stmt.args[CHOOSE i \in given : TRUE]
        hit == Matching(tbl, stmt)
    IN CASE fault = "exec" -> Failed(tbl, "database error")
         [] SeqToSet(stmt.columns) \ FieldNamesOf(sch) # {} ->
              Failed(tbl, "column does not exist")
         [] stmt.kind = "insert" ->
              IF ~IsInt(key) \/ key.n \in DOMAIN tbl THEN Failed(tbl, "duplicate key")
              ELSE Done([i \in DOMAIN tbl \cup {key.n} |->
                            IF i = key.n THEN values ELSE tbl[i]],
                        1, IF Len(stmt.returning) > 0 THEN key ELSE Nil)
         [] stmt.kind = "update" ->
              Done([i \in DOMAIN tbl |->
                      IF i \in hit
                      THEN [c \in DOMAIN tbl[i] \cup DOMAIN values |->
                              IF c \in DOMAIN values THEN values[c] ELSE tbl[i][c]]
                      ELSE tbl[i]],
                   Cardinality(hit), Nil)
         [] stmt.kind = "delete" ->
              Done([i \in DOMAIN tbl \ hit |-> tbl[i]], Cardinality(hit), Nil)

----------------------------------------------------------------------------
(* generator.CRUDGenerator *)

\* getPrimaryKeyField: the first primary-key field of the schema, if any
getPrimaryKeyField(sch) ==
    LET at == {i \in 1..Len(sch.Fields) : sch.Fields[i].PrimaryKey}
    IN IF at = {} THEN [found |-> FALSE]
       ELSE [found |-> TRUE, Name |-> sch.Fields[CHOOSE i \in at : \A j \in at : i <= j].Name]

Generated(stmt) == [err |-> NoError, stmt |-> stmt]
NotGenerated(msg) == [err |-> Error(msg), stmt |-> Nil]

\* GenerateInsert; `order` is the order in which range visits data
GenerateInsert(sch, data, order) ==
    LET fields == SelectSeq(order, LAMBDA k : k \in FieldNamesOf(sch))
        pk == getPrimaryKeyField(sch)
    IN IF DOMAIN data = {} THEN NotGenerated("no data provided for insert")
       ELSE IF Len(fields) = 0 THEN NotGenerated("no valid fields found for insert")
       ELSE Generated(Statement("insert", sch.TableName, fields, <<>>,
                                IF pk.found THEN <<pk.Name>> ELSE <<>>,
                                [i \in 1..Len(fields) |-> data[fields[i]]]))

\* GenerateUpdate; `order` is the order in which range visits data
GenerateUpdate(sch, cfg, id, data, order) ==
    LET pk == getPrimaryKeyField(sch)
        updatableFields ==
            IF ~IsNil(cfg.UpdateConfig) /\ Len(cfg.UpdateConfig.UpdatableFields) > 0
            THEN FieldsOf(cfg.UpdateConfig.UpdatableFields)
            ELSE FieldNamesOf(sch) \ {pk.Name}
        fields == SelectSeq(order, LAMBDA k : /\ k # pk.Name
                                              /\ k \in FieldNamesOf(sch)
                                              /\ k \in updatableFields)
    IN IF DOMAIN data = {} THEN NotGenerated("no data provided for update")
       ELSE IF ~pk.found THEN NotGenerated("no primary key field found")
       ELSE IF Len(fields) = 0 THEN NotGenerated("no valid fields found for update")
       ELSE Generated(Statement("update", sch.TableName, fields, <<pk.Name>>, <<>>,
                                [i \in 1..Len(fields) |-> data[fields[i]]] \o <<id>>))

\* a GenerateDelete whose statement has no WHERE condition
GenerateDeleteUnkeyed(sch, id) ==
    Generated(Statement("delete", sch.TableName, <<>>, <<>>, <<>>, <<id>>))

GenerateDelete(sch, id) ==
    LET pk == getPrimaryKeyField(sch)
    IN IF ~pk.found THEN NotGenerated("no primary key field found")
       ELSE Generated(Statement("delete", sch.TableName, <<>>, <<pk.Name>>, <<>>, <<id>>))

----------------------------------------------------------------------------
(* generator.CRUDGenerator: the text of the statements *)

NoText == [query |-> <<>>, values |-> <<>>]

\* the loop of GenerateInsert over data, visited in `order`: the fields, the
\* placeholders and the values collected from argIndex on
RECURSIVE InsertLoop(_, _, _, _)
InsertLoop(sch, data, order, argIndex) ==
    IF Len(order) = 0 THEN [fields |-> <<>>, placeholders |-> <<>>, values |-> <<>>]
    ELSE IF Head(order) \notin FieldNamesOf(sch)
    THEN InsertLoop(sch, data, Tail(order), argIndex)
    ELSE LET rest == InsertLoop(sch, data, Tail(order), argIndex + 1)
         IN [fields |-> << <<Head(order)>> >> \o rest.fields,
             placeholders |-> << <<"$">> \o Decimal(argIndex) >> \o rest.placeholders,
             values |-> <<data[Head(order)]>> \o rest.values]

\* GenerateInsert: the query text and the values of a generated insert
InsertQuery(sch, data, order) ==
    LET l == InsertLoop(sch, data, order, 1)
        pk == getPrimaryKeyField(sch)
    IN IF GenerateInsert(sch, data, order).err.failed THEN NoText
       ELSE [query |-> <<"INSERT INTO ", sch.TableName, " (">> \o Join(l.fields, <<", ">>)
                       \o <<") VALUES (">> \o Join(l.placeholders, <<", ">>) \o <<")">>
                       \o (IF pk.found THEN <<" RETURNING ", pk.Name>> ELSE <<>>),
             values |-> l.values]

\* the loop of GenerateUpdate over data, visited in `order`: the SET parts and the
\* values collected from argIndex on, and the index after the last one
RECURSIVE UpdateLoop(_, _, _, _)
UpdateLoop(data, order, settable, argIndex) ==
    IF Len(order) = 0 THEN [setParts |-> <<>>, values |-> <<>>, argIndex |-> argIndex]
    ELSE IF Head(order) \notin settable
    THEN UpdateLoop(data, Tail(order), settable, argIndex)
    ELSE LET rest == UpdateLoop(data, Tail(order), settable, argIndex + 1)
         IN [setParts |-> << <<Head(order), " = $">> \o Decimal(argIndex) >>
                          \o rest.setParts,
             values |-> <<data[Head(order)]>> \o rest.values,
             argIndex |-> rest.argIndex]

\* the fields GenerateUpdate writes: of the schema, updatable, and not the primary key
Settable(sch, cfg) ==
    LET pk == getPrimaryKeyField(sch)
        updatableFields ==
            IF ~IsNil(cfg.UpdateConfig) /\ Len(cfg.UpdateConfig.UpdatableFields) > 0
            THEN FieldsOf(cfg.UpdateConfig.UpdatableFields)
            ELSE FieldNamesOf(sch) \ {pk.Name}
    IN (FieldNamesOf(sch) \cap updatableFields) \ {pk.Name}

\* a GenerateUpdate whose WHERE condition is numbered like its first SET part
UpdateQueryRestarting(sch, cfg, id, data, order) ==
    LET pk == getPrimaryKeyField(sch)
        l == UpdateLoop(data, order, Settable(sch, cfg), 1)
    IN IF GenerateUpdate(sch, cfg, id, data, order).err.failed THEN NoText
       ELSE [query |-> <<"UPDATE ", sch.TableName, " SET ">> \o Join(l.setParts, <<", ">>)
                       \o <<" WHERE ", pk.Name, " = $">> \o Decimal(1),
             values |-> l.values \o <<id>>]

\* GenerateUpdate: the query text and the values of a generated update
UpdateQuery(sch, cfg, id, data, order) ==
    LET pk == getPrimaryKeyField(sch)
        l == UpdateLoop(data, order, Settable(sch, cfg), 1)
    IN IF GenerateUpdate(sch, cfg, id, data, order).err.failed THEN NoText
       ELSE [query |-> <<"UPDATE ", sch.TableName, " SET ">> \o Join(l.setParts, <<", ">>)
                       \o <<" WHERE ", pk.Name, " = $">> \o Decimal(l.argIndex),
             values |-> l.values \o <<id>>]

\* GenerateDelete: the query text and the values of a generated delete
DeleteQuery(sch, id) ==
    LET pk == getPrimaryKeyField(sch)
    IN IF ~pk.found THEN NoText
       ELSE [query |-> <<"DELETE FROM ", sch.TableName, " WHERE ", pk.Name, " = $", "1">>,
             values |-> <<id>>]

----------------------------------------------------------------------------
(* gormparser.TableBuilder: the statement builders *)

\* BuildUpdateSQL(columns...): no WHERE clause when the table has no primary key
BuildUpdateSQL(ti, columns) ==
    LET all == SelectSeq(ti.Fields, LAMBDA f : ~f.IsPrimaryKey /\ ~f.IsAutoIncr)
        set == IF Len(columns) = 0 THEN [i \in 1..Len(all) |-> all[i].ColumnName]
               ELSE columns
    IN Statement("update", ti.Name, set, ti.PrimaryKey, <<>>, <<>>)

\* BuildDeleteSQL()
BuildDeleteSQL(ti) == Statement("delete", ti.Name, <<>>, ti.PrimaryKey, <<>>, <<>>)

----------------------------------------------------------------------------
(* validator.Validator *)

Panic(msg) == [failed |-> TRUE, msg |-> msg, panic |-> TRUE]
IsPanic(e) == e.failed /\ "panic" \in DOMAIN e

\* validateFieldWithRules: every violated rule gives an entry. `structCheck` is what
\* the go-playground validator answers for the regexp tag built from the pattern:
\* "valid", "invalid", or "panic"
validateFieldWithRules(fieldName, value, validation, structCheck) ==
    LET length == Len(Sprint(value))
        entry(tag) == <<ValidationError(fieldName, tag, value, tag)>>
        minLength == IF ~IsNil(validation.MinLength) /\ length < validation.MinLength.n
                     THEN entry("min_length") ELSE <<>>
        maxLength == IF ~IsNil(validation.MaxLength) /\ length > validation.MaxLength.n
                     THEN entry("max_length") ELSE <<>>
        min == IF ~IsNil(validation.Min) /\ IsInt(value) /\ value.n < validation.Min.n
               THEN entry("min") ELSE <<>>
        max == IF ~IsNil(validation.Max) /\ IsInt(value) /\ value.n > validation.Max.n
               THEN entry("max") ELSE <<>>
        pattern == IF validation.Pattern # "" /\ structCheck = "invalid"
                   THEN entry("pattern") ELSE <<>>
    IN IF validation.Pattern # "" /\ (IsNil(value) \/ structCheck = "panic")
       THEN [err |-> Panic("validator"), errors |-> <<>>]
       ELSE [err |-> NoError, errors |-> minLength \o maxLength \o min \o max \o pattern]

\* the loop of ValidateCreate / ValidateUpdate over the configured fields
RECURSIVE ValidateLoop(_, _, _)
ValidateLoop(fields, data, structCheck) ==
    IF Len(fields) = 0 THEN [err |-> NoError, errors |-> <<>>]
    ELSE LET field == Head(fields)
             exists == field.Field \in DOMAIN data
             rest == ValidateLoop(Tail(fields), data, structCheck)
             own == IF field.Required /\ ~exists
                    THEN [err |-> NoError,
                          errors |-> <<ValidationError(field.Field, "required", Nil,
                                                       "required")>>]
                    ELSE IF exists /\ ~IsNil(field.Validation)
                    THEN validateFieldWithRules(field.Field, data[field.Field],
                                                field.Validation, structCheck)
                    ELSE [err |-> NoError, errors |-> <<>>]
         IN IF own.err.failed THEN own
            ELSE IF rest.err.failed THEN rest
            ELSE [err |-> NoError, errors |-> own.errors \o rest.errors]

ValidateCreate(cfg, data, structCheck) ==
    IF IsNil(cfg.CreateConfig) \/ Len(cfg.CreateConfig.CreatableFields) = 0
    THEN [err |-> NoError, errors |-> <<>>]
    ELSE ValidateLoop(cfg.CreateConfig.CreatableFields, data, structCheck)

ValidateUpdate(cfg, data, structCheck) ==
    IF IsNil(cfg.UpdateConfig) \/ Len(cfg.UpdateConfig.UpdatableFields) = 0
    THEN [err |-> NoError, errors |-> <<>>]
    ELSE ValidateLoop(cfg.UpdateConfig.UpdatableFields, data, structCheck)

----------------------------------------------------------------------------
(* services.CRUDService: Create, Update, Delete *)

\* validateFieldValue: the first violated rule only
validateFieldValue(field, value, validation) ==
    LET lengthError ==
            IF (~IsNil(validation.MinLength) \/ ~IsNil(validation.MaxLength)) /\ IsStr(value)
            THEN IF ~IsNil(validation.MinLength) /\ Len(value.s) < validation.MinLength.n
                 THEN Error("must be at least n characters")
                 ELSE IF ~IsNil(validation.MaxLength) /\ Len(value.s) > validation.MaxLength.n
                 THEN Error("must be at most n characters")
                 ELSE NoError
            ELSE NoError
        parsed == IF IsStr(value) THEN Atoi(value.s) ELSE [ok |-> IsInt(value), n |-> 0]
        numValue == IF IsInt(value) THEN value.n ELSE parsed.n
        rangeError ==
            IF ~IsNil(validation.Min) \/ ~IsNil(validation.Max)
            THEN IF IsStr(value) /\ ~parsed.ok THEN Error("must be a valid number")
                 ELSE IF ~IsStr(value) /\ ~IsInt(value) THEN Error("must be a number")
                 ELSE IF ~IsNil(validation.Min) /\ numValue < validation.Min.n
                 THEN Error("must be at least n")
                 ELSE IF ~IsNil(validation.Max) /\ numValue > validation.Max.n
                 THEN Error("must be at most n")
                 ELSE NoError
            ELSE NoError
        patternError ==
            IF validation.Pattern # "" /\ IsStr(value)
            THEN LET m == MatchString(validation.Pattern, value.s)
                 IN IF m.err THEN Error("invalid pattern")
                    ELSE IF ~m.matched THEN Error("does not match required pattern")
                    ELSE NoError
            ELSE NoError
    IN IF lengthError.failed THEN lengthError
       ELSE IF rangeError.failed THEN rangeError
       ELSE patternError

\* a validation loop that finds nothing
ServiceValidateNothing(fields, data) == <<>>

\* the validation loop of Create and Update: a "required" entry and at most one
\* "validation" entry for each configured field
RECURSIVE ServiceValidate(_, _)
ServiceValidate(fields, data) ==
    IF Len(fields) = 0 THEN <<>>
    ELSE LET field == Head(fields)
             exists == field.Field \in DOMAIN data
             value == IF exists THEN data[field.Field] ELSE Nil
             required == IF field.Required /\ (~exists \/ IsNil(value) \/ value = StrV(<<>>))
                         THEN <<ValidationError(field.Field, "required", value, "is required")>>
                         ELSE <<>>
             e == IF exists /\ ~IsNil(field.Validation)
                  THEN validateFieldValue(field.Field, value, field.Validation)
                  ELSE NoError
             checked == IF e.failed
                        THEN <<ValidationError(field.Field, "validation", value, e.msg)>>
                        ELSE <<>>
         IN required \o checked \o ServiceValidate(Tail(fields), data)

\* a DefaultOf that takes the value after the next
DefaultOfSkipping(field, maxID) ==
    IF field.DefaultType = "auto_increment" THEN IntV(maxID + 2) ELSE Nil

\* the defaults Create puts into data for the configured fields data lacks; maxID is
\* what the MAX query answered
DefaultOf(field, maxID) ==
    CASE field.DefaultType = "fixed" -> StrV(field.DefaultValue)
      [] field.DefaultType = "auto_increment" -> IntV(maxID + 1)
      [] field.DefaultType = "current_time" -> StrV(<<"n", "o", "w", "(", ")">>)
      [] field.DefaultType = "uuid" -> StrV(<<"g", "e", "n", "_", "r", "a", "n", "d", "o", "m", "_", "u", "u", "i", "d",
                                                "(", ")">>)
      [] OTHER -> Nil

Defaulted(fields, data) ==
    SelectSeq(fields, LAMBDA f : /\ f.DefaultType \in {"fixed", "auto_increment",
                                                        "current_time", "uuid"}
                                 /\ f.Field # ""
                                 /\ f.Field \notin DOMAIN data
                                 /\ ~(f.DefaultType = "fixed" /\ f.DefaultValue = <<>>))

ApplyDefaults(fields, data, maxID) ==
    LET d == Defaulted(fields, data)
        first(k) == d[CHOOSE i \in 1..Len(d) : d[i].Field = k /\ \A j \in 1..(i - 1) : d[j].Field # k]
    IN [k \in DOMAIN data \cup FieldsOf(d) |->
          IF k \in DOMAIN data THEN data[k] ELSE DefaultOf(first(k), maxID)]

\* the MAX queries Create runs for the auto_increment defaults
MaxQueries(table, fields, data) ==
    LET d == SelectSeq(Defaulted(fields, data), LAMBDA f : f.DefaultType = "auto_increment")
    IN [i \in 1..Len(d) |-> Statement("select_max", table, <<d[i].Field>>, <<>>, <<>>, <<>>)]

Returns(err, result, executed, tbl) ==
    [err |-> err, result |-> result, executed |-> executed, rows |-> tbl]

\* the maxID Create goes on with after its COALESCE(MAX(field), 0) query: the value
\* scanned, or 0 when the query fails
ReadMax(env, tbl) == IF env.fault = "read" THEN 0 ELSE MaxID(tbl)

\* CRUDService.Create from the point where maxID has been read. env.fault: the
\* collaborator call that fails, if any
ServiceCreateFrom(sch, row, data0, env, tbl, maxID) ==
    LET creatableFields == row.CreateCreatableFields
        reads == MaxQueries(row.DBTableName, creatableFields, data0)
        defaulted == ApplyDefaults(creatableFields, data0, maxID)
        data == IF Len(creatableFields) > 0 THEN Restrict(defaulted, FieldsOf(creatableFields))
                ELSE defaulted
        validationErrors == IF Len(creatableFields) > 0
                            THEN ServiceValidate(creatableFields, data) ELSE <<>>
        columns == SortedColumns(DOMAIN data)
        insert == Statement("insert", row.DBTableName, columns, <<>>, <<>>,
                            [i \in 1..Len(columns) |-> data[columns[i]]])
        x == Exec(sch, tbl, insert, env.fault)
    IN CASE ~row.IsActive \/ env.fault = "config" ->
              Returns(Error("configuration not found"), Nil, <<>>, tbl)
         [] env.fault = "connection" ->
              Returns(Error("failed to get database connection"), Nil, <<>>, tbl)
         [] Len(validationErrors) > 0 ->
              Returns(NoError, [Success |-> FALSE, ID |-> Nil, Errors |-> validationErrors],
                      reads, tbl)
         [] x.err.failed ->
              Returns(Error("failed to create record"), Nil, reads \o <<insert>>, tbl)
         [] OTHER ->
              Returns(NoError,
                      [Success |-> TRUE,
                       ID |-> IF "id" \in DOMAIN data THEN data["id"] ELSE Nil,
                       Errors |-> <<>>],
                      reads \o <<insert>>, x.rows)

\* CRUDService.Create run without interruption
ServiceCreate(sch, row, data0, env, tbl) ==
    ServiceCreateFrom(sch, row, data0, env, tbl, ReadMax(env, tbl))

\* CRUDService.Update: the row is addressed by the column "id"; gorm builds no
\* statement for an empty map
ServiceUpdate(sch, row, id, data0, env, tbl) ==
    LET updatableFields == row.UpdateUpdatableFields
        data == IF Len(updatableFields) > 0 THEN Restrict(data0, FieldsOf(updatableFields))
                ELSE data0
        validationErrors == IF Len(updatableFields) > 0
                            THEN ServiceValidate(updatableFields, data) ELSE <<>>
        columns == SortedColumns(DOMAIN data)
        update == Statement("update", row.DBTableName, columns, <<"id">>, <<>>,
                            [i \in 1..Len(columns) |-> data[columns[i]]] \o <<id>>)
        x == Exec(sch, tbl, update, env.fault)
    IN CASE ~row.IsActive \/ env.fault = "config" ->
              Returns(Error("configuration not found"), Nil, <<>>, tbl)
         [] env.fault = "connection" ->
              Returns(Error("failed to get database connection"), Nil, <<>>, tbl)
         [] Len(validationErrors) > 0 ->
              Returns(NoError,
                      [Success |-> FALSE, RowsAffected |-> 0, Errors |-> validationErrors],
                      <<>>, tbl)
         [] DOMAIN data = {} ->
              Returns(NoError, [Success |-> TRUE, RowsAffected |-> 0, Errors |-> <<>>],
                      <<>>, tbl)
         [] x.err.failed ->
              Returns(Error("failed to update record"), Nil, <<update>>, tbl)
         [] OTHER ->
              Returns(NoError,
                      [Success |-> TRUE, RowsAffected |-> x.rowsAffected, Errors |-> <<>>],
                      <<update>>, x.rows)

\* CRUDService.Delete
ServiceDelete(sch, row, id, env, tbl) ==
    LET delete == Statement("delete", row.DBTableName, <<>>, <<"id">>, <<>>, <<id>>)
        x == Exec(sch, tbl, delete, env.fault)
    IN CASE ~row.IsActive \/ env.fault = "config" ->
              Returns(Error("configuration not found"), Nil, <<>>, tbl)
         [] env.fault = "connection" ->
              Returns(Error("failed to get database connection"), Nil, <<>>, tbl)
         [] x.err.failed ->
              Returns(Error("failed to delete record"), Nil, <<delete>>, tbl)
         [] OTHER ->
              Returns(NoError, [Success |-> TRUE, RowsAffected |-> x.rowsAffected],
                      <<delete>>, x.rows)

----------------------------------------------------------------------------
(* builder.CRUDBuilder: Create, Update, Delete *)

\* CRUDBuilder.Create: validate, fetch configuration and connection, generate, run
BuilderCreate(sch, cfg, data, order, env, tbl) ==
    LET v == ValidateCreate(cfg, data, env.structCheck)
        g == GenerateInsert(sch, data, order)
        x == Exec(sch, tbl, g.stmt, env.fault)
    IN CASE v.err.failed -> Returns(v.err, Nil, <<>>, tbl)
         [] Len(v.errors) > 0 ->
              Returns(NoError, [Success |-> FALSE, ID |-> Nil, Errors |-> v.errors], <<>>, tbl)
         [] env.fault = "config" ->
              Returns(Error("failed to get table configuration"), Nil, <<>>, tbl)
         [] env.fault = "connection" ->
              Returns(Error("failed to get database connection"), Nil, <<>>, tbl)
         [] g.err.failed -> Returns(Error("failed to generate insert query"), Nil, <<>>, tbl)
         [] x.err.failed -> Returns(Error("failed to execute insert"), Nil, <<g.stmt>>, tbl)
         [] OTHER ->
              Returns(NoError, [Success |-> TRUE, ID |-> x.id, Errors |-> <<>>],
                      <<g.stmt>>, x.rows)

\* CRUDBuilder.Update
BuilderUpdate(sch, cfg, id, data, order, env, tbl) ==
    LET v == ValidateUpdate(cfg, data, env.structCheck)
        g == GenerateUpdate(sch, cfg, id, data, order)
        x == Exec(sch, tbl, g.stmt, env.fault)
    IN CASE v.err.failed -> Returns(v.err, Nil, <<>>, tbl)
         [] Len(v.errors) > 0 ->
              Returns(NoError,
                      [Success |-> FALSE, RowsAffected |-> 0, Errors |-> v.errors], <<>>, tbl)
         [] env.fault = "config" ->
              Returns(Error("failed to get table configuration"), Nil, <<>>, tbl)
         [] env.fault = "connection" ->
              Returns(Error("failed to get database connection"), Nil, <<>>, tbl)
         [] g.err.failed -> Returns(Error("failed to generate update query"), Nil, <<>>, tbl)
         [] x.err.failed -> Returns(Error("failed to execute update"), Nil, <<g.stmt>>, tbl)
         [] OTHER ->
              Returns(NoError,
                      [Success |-> TRUE, RowsAffected |-> x.rowsAffected, Errors |-> <<>>],
                      <<g.stmt>>, x.rows)

\* CRUDBuilder.Delete
BuilderDelete(sch, id, env, tbl) ==
    LET g == GenerateDelete(sch, id)
        x == Exec(sch, tbl, g.stmt, env.fault)
    IN CASE env.fault = "config" ->
              Returns(Error("failed to get table configuration"), Nil, <<>>, tbl)
         [] env.fault = "connection" ->
              Returns(Error("failed to get database connection"), Nil, <<>>, tbl)
         [] g.err.failed -> Returns(Error("failed to generate delete query"), Nil, <<>>, tbl)
         [] x.err.failed -> Returns(Error("failed to execute delete"), Nil, <<g.stmt>>, tbl)
         [] OTHER ->
              Returns(NoError, [Success |-> TRUE, RowsAffected |-> x.rowsAffected],
                      <<g.stmt>>, x.rows)

----------------------------------------------------------------------------
(* The configurations and payloads of the create, update and delete operations *)

NameRules == FieldValidation(IntV(3), IntV(8), Nil, Nil, LowerPattern)
AgeRules == FieldValidation(Nil, Nil, IntV(18), IntV(150), "")

MutationConfigs ==
    { \* name and age may be written, both validated
      ConfigRow(TRUE, <<>>, <<>>,
                << CreatableField("name", TRUE, "", <<>>, NameRules),
                   CreatableField("age", FALSE, "", <<>>, AgeRules) >>,
                << UpdatableField("name", FALSE, NameRules),
                   UpdatableField("age", FALSE, AgeRules) >>),
      \* no creatable and no updatable field is configured
      ConfigRow(TRUE, <<>>, <<>>, <<>>, <<>>),
      \* defaults for id and status, no rules besides required
      ConfigRow(TRUE, <<>>, <<>>,
                << CreatableField("id", FALSE, "auto_increment", <<>>, Nil),
                   CreatableField("name", TRUE, "", <<>>, Nil),
                   CreatableField("status", FALSE, "fixed", <<"n", "e", "w">>, Nil) >>,
                << UpdatableField("name", TRUE, Nil) >>) }

\* the other default policies, and a fixed default that is the empty string
DefaultConfigs ==
    { ConfigRow(TRUE, <<>>, <<>>,
                << CreatableField("name", TRUE, "", <<>>, Nil),
                   CreatableField("status", FALSE, "current_time", <<>>, Nil),
                   CreatableField("is_admin", FALSE, "uuid", <<>>, Nil),
                   CreatableField("age", FALSE, "fixed", <<>>, Nil) >>,
                <<>>) }

GoodName == StrV(<<"a", "b", "c">>)
BadName == StrV(<<"A", "B">>)

\* request bodies: empty, valid, violating one, two and three rules, and with keys
\* outside the configured fields and outside the table
Payloads ==
    { <<>>,
      "name" :> GoodName,
      "name" :> BadName,
      ("name" :> StrV(<<>>)) @@ ("age" :> StrV(<<"1", "7">>)),
      ("name" :> BadName) @@ ("age" :> IntV(17)),
      ("name" :> GoodName) @@ ("is_admin" :> IntV(1)),
      ("name" :> GoodName) @@ ("ghost" :> IntV(1)) }

\* request bodies that give a null and an empty string to fields with a default
DefaultPayloads ==
    { ("name" :> GoodName) @@ ("status" :> StrV(<<>>)) @@ ("is_admin" :> Nil) }

\* what the generators are also given: a body that names the primary key
GeneratorPayloads == Payloads \cup {("id" :> IntV(1)) @@ ("name" :> GoodName)}

IDs == {IntV(i) : i \in 1..(MaxRows + 1)}

StructChecks == {"valid", "invalid", "panic"}

ServiceEnvs == {[fault |-> f] : f \in {"none", "config", "connection", "read", "exec"}}

BuilderEnvs ==
    {[fault |-> "none", structCheck |-> c] : c \in StructChecks}
    \cup {[fault |-> f, structCheck |-> "invalid"] : f \in {"config", "connection", "exec"}}

----------------------------------------------------------------------------
(* The create, update and delete operations as a state machine *)

InitMutation ==
    /\ pc = "ready"
    /\ \E withKey \in BOOLEAN :
          /\ tableInfo = TableInfoOf("extended_user", ExtendedUserFields(withKey))
          /\ schema = UsersSchema(withKey)
    /\ config \in MutationConfigs
    /\ rows = <<>>
    /\ configurations = <<config>>
    /\ manager = NewManager
    /\ goroutines = <<>>
    /\ last = Idle

\* a call that leaves the table alone
Answer(call) ==
    /\ pc = "ready"
    /\ last' = call
    /\ pc' = "returned"
    /\ UNCHANGED <<tableInfo, schema, config, rows, configurations, manager, goroutines>>

\* a call that works on the table; ids stay within 1..MaxRows
Run(call) ==
    /\ pc = "ready"
    /\ MaxID(call.out.rows) <= MaxRows
    /\ last' = call
    /\ rows' = call.out.rows
    /\ pc' = "returned"
    /\ UNCHANGED <<tableInfo, schema, config, configurations, manager, goroutines>>

\* CRUDGenerator.GenerateInsert(data)
CRUDGeneratorInsert ==
    \E data \in GeneratorPayloads : \E order \in Orders(DOMAIN data) :
        Answer([op |-> "CRUDGenerator.GenerateInsert", data |-> data, order |-> order,
                out |-> GenerateInsert(schema, data, order),
                text |-> InsertQuery(schema, data, order)])

\* CRUDGenerator.GenerateUpdate(id, data)
CRUDGeneratorUpdate ==
    \E id \in IDs, data \in GeneratorPayloads : \E order \in Orders(DOMAIN data) :
        Answer([op |-> "CRUDGenerator.GenerateUpdate", id |-> id, data |-> data,
                order |-> order,
                out |-> GenerateUpdate(schema, ConvertToLegacyConfig(config), id, data, order),
                text |-> UpdateQuery(schema, ConvertToLegacyConfig(config), id, data,
                                     order)])

\* CRUDGenerator.GenerateDelete(id)
CRUDGeneratorDelete ==
    \E id \in IDs :
        Answer([op |-> "CRUDGenerator.GenerateDelete", id |-> id,
                out |-> GenerateDelete(schema, id), text |-> DeleteQuery(schema, id)])

\* TableBuilder.BuildUpdateSQL(columns...)
TableBuilderUpdateSQL ==
    \E columns \in {<<>>, <<"username">>, <<"username", "age">>} :
        Answer([op |-> "TableBuilder.BuildUpdateSQL", columns |-> columns,
                out |-> Generated(BuildUpdateSQL(tableInfo, columns))])

\* TableBuilder.BuildDeleteSQL()
TableBuilderDeleteSQL ==
    Answer([op |-> "TableBuilder.BuildDeleteSQL",
            out |-> Generated(BuildDeleteSQL(tableInfo))])

\* Validator.ValidateCreate(data)
ValidatorCreate ==
    \E data \in Payloads, structCheck \in StructChecks :
        Answer([op |-> "Validator.ValidateCreate", data |-> data,
                structCheck |-> structCheck,
                out |-> ValidateCreate(ConvertToLegacyConfig(config), data, structCheck)])

\* Validator.ValidateUpdate(data)
ValidatorUpdate ==
    \E data \in Payloads, structCheck \in StructChecks :
        Answer([op |-> "Validator.ValidateUpdate", data |-> data,
                structCheck |-> structCheck,
                out |-> ValidateUpdate(ConvertToLegacyConfig(config), data, structCheck)])

\* CRUDService.Create(configName, data)
CRUDServiceCreate ==
    \E data \in Payloads, env \in ServiceEnvs :
        Run([op |-> "CRUDService.Create", data |-> data, env |-> env, before |-> rows,
             out |-> ServiceCreate(schema, config, data, env, rows)])

\* CRUDService.Update(configName, id, data)
CRUDServiceUpdate ==
    \E id \in IDs, data \in Payloads, env \in ServiceEnvs \ {[fault |-> "read"]} :
        Run([op |-> "CRUDService.Update", id |-> id, data |-> data, env |-> env,
             before |-> rows, out |-> ServiceUpdate(schema, config, id, data, env, rows)])

\* CRUDService.Delete(configName, id)
CRUDServiceDelete ==
    \E id \in IDs, env \in ServiceEnvs \ {[fault |-> "read"]} :
        Run([op |-> "CRUDService.Delete", id |-> id, env |-> env, before |-> rows,
             out |-> ServiceDelete(schema, config, id, env, rows)])

\* CRUDBuilder.Create(data)
CRUDBuilderCreate ==
    \E data \in Payloads, env \in BuilderEnvs : \E order \in Orders(DOMAIN data) :
        Run([op |-> "CRUDBuilder.Create", data |-> data, order |-> order, env |-> env,
             before |-> rows,
             out |-> BuilderCreate(schema, ConvertToLegacyConfig(config), data, order, env,
                                   rows)])

\* CRUDBuilder.Update(id, data)
CRUDBuilderUpdate ==
    \E id \in IDs, data \in Payloads, env \in BuilderEnvs : \E order \in Orders(DOMAIN data) :
        Run([op |-> "CRUDBuilder.Update", id |-> id, data |-> data, order |-> order,
             env |-> env, before |-> rows,
             out |-> BuilderUpdate(schema, ConvertToLegacyConfig(config), id, data, order,
                                   env, rows)])

\* CRUDBuilder.Delete(id)
CRUDBuilderDelete ==
    \E id \in IDs, env \in BuilderEnvs :
        Run([op |-> "CRUDBuilder.Delete", id |-> id, env |-> env, before |-> rows,
             out |-> BuilderDelete(schema, id, env, rows)])

NextMutation ==
    \/ CRUDGeneratorInsert
    \/ CRUDGeneratorUpdate
    \/ CRUDGeneratorDelete
    \/ TableBuilderUpdateSQL
    \/ TableBuilderDeleteSQL
    \/ ValidatorCreate
    \/ ValidatorUpdate
    \/ CRUDServiceCreate
    \/ CRUDServiceUpdate
    \/ CRUDServiceDelete
    \/ CRUDBuilderCreate
    \/ CRUDBuilderUpdate
    \/ CRUDBuilderDelete
    \/ Respond

SpecMutation == InitMutation /\ [][NextMutation]_vars

\* CRUDService.Create under the configurations of DefaultConfigs
InitDefault ==
    /\ pc = "ready"
    /\ \E withKey \in BOOLEAN :
          /\ tableInfo = TableInfoOf("extended_user", ExtendedUserFields(withKey))
          /\ schema = UsersSchema(withKey)
    /\ config \in DefaultConfigs
    /\ rows = <<>>
    /\ configurations = <<config>>
    /\ manager = NewManager
    /\ goroutines = <<>>
    /\ last = Idle

\* CRUDService.Create(configName, data) with the bodies of DefaultPayloads as well
CRUDServiceCreateDefaulted ==
    \E data \in Payloads \cup DefaultPayloads, env \in ServiceEnvs :
        Run([op |-> "CRUDService.Create", data |-> data, env |-> env, before |-> rows,
             out |-> ServiceCreate(schema, config, data, env, rows)])

NextDefault ==
    \/ CRUDServiceCreateDefaulted
    \/ Respond

SpecDefault == InitDefault /\ [][NextDefault]_vars

----------------------------------------------------------------------------
(* Properties of the create, update and delete operations *)

Creatable == FieldsOf(config.CreateCreatableFields)
Updatable == FieldsOf(config.UpdateUpdatableFields)

\* the statements a call produced or ran
StatementsOf(call) ==
    IF "executed" \in DOMAIN call.out THEN call.out.executed
    ELSE IF call.out.err.failed THEN <<>>
    ELSE <<call.out.stmt>>

Writes(call, kind) == SelectSeq(StatementsOf(call), LAMBDA st : st.kind = kind)

\* C2: the columns an insert writes are creatable fields and the columns an update
\* writes are updatable fields, for CRUDService.Create/Update and
\* CRUDGenerator.GenerateInsert/GenerateUpdate, under every configuration
C2_WritesOnlyConfiguredColumns ==
    /\ \A op \in {"CRUDService.Create", "CRUDGenerator.GenerateInsert"} :
          Returned(op) =>
             \A i \in 1..Len(Writes(last, "insert")) :
                SeqToSet(Writes(last, "insert")[i].columns) \subseteq Creatable
    /\ \A op \in {"CRUDService.Update", "CRUDGenerator.GenerateUpdate"} :
          Returned(op) =>
             \A i \in 1..Len(Writes(last, "update")) :
                SeqToSet(Writes(last, "update")[i].columns) \subseteq Updatable

\* the configured fields a create or update validates
ValidatedFields(op) ==
    IF op \in {"CRUDService.Create", "CRUDBuilder.Create", "Validator.ValidateCreate"}
    THEN config.CreateCreatableFields ELSE config.UpdateUpdatableFields

\* a required field without a default is absent from the payload
RequiredMissing(fields, data) ==
    \E i \in 1..Len(fields) :
        /\ fields[i].Required
        /\ fields[i].Field \notin DOMAIN data
        /\ "DefaultType" \in DOMAIN fields[i] => fields[i].DefaultType = ""

\* the call got as far as validating its payload
Validated(call) ==
    IF call.op \in {"CRUDService.Create", "CRUDService.Update"}
    THEN call.env.fault \notin {"config", "connection"}
    ELSE ~IsPanic(call.out.err)

Number(value) == IF IsInt(value) THEN [ok |-> TRUE, n |-> value.n]
                 ELSE IF IsStr(value) THEN Atoi(value.s)
                 ELSE [ok |-> FALSE, n |-> 0]

Violations(fields, data) ==
    {fr \in FieldsOf(fields) \X {"required", "min_length", "max_length", "min", "max", "pattern"} :
        \E i \in 1..Len(fields) :
            LET f == fields[i]
                present == f.Field \in DOMAIN data
                value == data[f.Field]
                rules == f.Validation
            IN /\ f.Field = fr[1]
               /\ CASE fr[2] = "required" -> f.Required /\ ~present
                    [] ~present \/ IsNil(rules) -> FALSE
                    [] fr[2] = "min_length" ->
                         ~IsNil(rules.MinLength) /\ IsStr(value) /\ Len(value.s) < rules.MinLength.n
                    [] fr[2] = "max_length" ->
                         ~IsNil(rules.MaxLength) /\ IsStr(value) /\ Len(value.s) > rules.MaxLength.n
                    [] fr[2] = "min" ->
                         ~IsNil(rules.Min) /\ Number(value).ok /\ Number(value).n < rules.Min.n
                    [] fr[2] = "max" ->
                         ~IsNil(rules.Max) /\ Number(value).ok /\ Number(value).n > rules.Max.n
                    [] fr[2] = "pattern" ->
                         rules.Pattern # "" /\ IsStr(value)
                         /\ ~MatchString(rules.Pattern, value.s).matched}

\* C8: the error list has one entry for each violated (field, rule) pair, for
\* Validator.ValidateCreate/ValidateUpdate and CRUDService.Create/Update
C8_EveryViolationReported ==
    /\ \A op \in {"Validator.ValidateCreate", "Validator.ValidateUpdate"} :
          (Returned(op) /\ ~last.out.err.failed) =>
              Len(last.out.errors) = Cardinality(Violations(ValidatedFields(op), last.data))
    /\ \A op \in {"CRUDService.Create", "CRUDService.Update"} :
          (Returned(op) /\ Validated(last)) =>
              LET found == IF last.out.result = Nil THEN 0
                           ELSE Len(last.out.result.Errors)
              IN found = Cardinality(Violations(ValidatedFields(op), last.data))

\* C9: on a schema without a primary key GenerateUpdate/GenerateDelete,
\* BuildUpdateSQL/BuildDeleteSQL and CRUDService.Update/Delete fail, and none of them
\* ever produces or runs an UPDATE or DELETE without a WHERE on the primary key
KeyColumns == {schema.Fields[i].Name : i \in {j \in 1..Len(schema.Fields) : schema.Fields[j].PrimaryKey}}

C9_KeyedUpdateAndDelete ==
    \A op \in {"CRUDGenerator.GenerateUpdate", "CRUDGenerator.GenerateDelete",
               "TableBuilder.BuildUpdateSQL", "TableBuilder.BuildDeleteSQL",
               "CRUDService.Update", "CRUDService.Delete"} :
        Returned(op) =>
            /\ KeyColumns = {} => last.out.err.failed
            /\ \A i \in 1..Len(StatementsOf(last)) :
                  StatementsOf(last)[i].kind \in {"update", "delete"} =>
                      /\ Len(StatementsOf(last)[i].where) > 0
                      /\ SeqToSet(StatementsOf(last)[i].where) \subseteq KeyColumns

\* the id of the call is the id of no row
NoMatch(call) == ~(IsInt(call.id) /\ call.id.n \in DOMAIN call.before)

ByID == {"CRUDService.Update", "CRUDService.Delete", "CRUDBuilder.Update", "CRUDBuilder.Delete"}

RunsStatement(call) ==
    /\ call.env.fault = "none"
    /\ CASE call.op = "CRUDService.Update" ->
               LET fields == config.UpdateUpdatableFields
                   data == IF Len(fields) > 0 THEN Restrict(call.data, FieldsOf(fields))
                           ELSE call.data
               IN /\ Len(fields) > 0 => ServiceValidate(fields, data) = <<>>
                  /\ DOMAIN data \subseteq FieldNamesOf(schema)
         [] call.op = "CRUDBuilder.Update" ->
               LET cfg == ConvertToLegacyConfig(config)
                   v == ValidateUpdate(cfg, call.data, call.env.structCheck)
               IN /\ ~v.err.failed /\ v.errors = <<>>
                  /\ ~GenerateUpdate(schema, cfg, call.id, call.data, call.order).err.failed
         [] call.op = "CRUDBuilder.Delete" -> KeyColumns # {}
         [] OTHER -> TRUE

InsertsOf(call) == SelectSeq(call.out.executed, LAMBDA s : s.kind = "insert")

\* the value a statement binds to a column it writes
ValueOf(stmt, column) ==
    stmt.args[CHOOSE i \in 1..Len(stmt.columns) : stmt.columns[i] = column]

\* the configured creatable fields with an auto_increment default that the body omits
AutoIncremented(call) ==
    {config.CreateCreatableFields[i].Field : i \in
        {j \in 1..Len(config.CreateCreatableFields) :
            /\ config.CreateCreatableFields[j].DefaultType = "auto_increment"
            /\ config.CreateCreatableFields[j].Field \notin DOMAIN call.data}}

\* C11: when CRUDService.Create inserts a row for a body that omits an auto_increment
\* field, the value it binds to that field is COALESCE(MAX(field), 0) + 1 over the
\* table as it is at the call, and so is the value of no row then in the table
C11_AutoIncrementIsNextValue ==
    (Returned("CRUDService.Create") /\ Len(InsertsOf(last)) > 0) =>
        \A f \in AutoIncremented(last) :
            /\ ValueOf(InsertsOf(last)[1], f) = IntV(MaxID(last.before) + 1)
            /\ ValueOf(InsertsOf(last)[1], f).n \notin DOMAIN last.before

----------------------------------------------------------------------------
(* Properties of the search predicates *)

\* the configured search fields of one of the types that a request gives a value of
\* the shape `shape`
SearchedFields(types, search, shape(_)) ==
    {config.QuerySearchFields[i].Field : i \in
        {j \in 1..Len(config.QuerySearchFields) :
            /\ config.QuerySearchFields[j].Type \in types
            /\ config.QuerySearchFields[j].Field \in DOMAIN search
            /\ shape(search[config.QuerySearchFields[j].Field])}}

\* seq holds part as a run of consecutive elements
HasRun(seq, part) ==
    \E i \in 0..(Len(seq) - Len(part)) : SubSeq(seq, i + 1, i + Len(part)) = part

\* the text `column IN ($i, ..., $i+n-1)` for some i
InList(column, n, text) ==
    \E i \in 1..Len(text) :
        HasRun(text, <<column, " IN (">>
                     \o Join([k \in 1..n |-> <<"$">> \o Decimal(i + k - 1)], <<", ">>)
                     \o <<")">>)

\* the conditions a CRUDService.List call put on its queries
WheresOf(call) == call.out.executed[1].wheres

\* C12: for a search field of type multi or multi_select, GenerateQuery and
\* CRUDService.List turn a non-empty array into `column IN (...)` with one placeholder
\* and one bound argument per element, in element order, and an empty array into no
\* predicate, without an error
C12_ArrayBecomesInList ==
    /\ Returned("QueryGenerator.GenerateQuery") =>
          \A f \in SearchedFields({SearchTypeMulti, SearchTypeMultiSelect},
                                  last.params.Search, IsArr) :
             LET a == last.params.Search[f].a
             IN /\ ~last.out.err.failed
                /\ Len(a) > 0 => /\ InList(f, Len(a), last.out.query)
                                 /\ HasRun(last.out.args, a)
                /\ Len(a) = 0 => f \notin SeqToSet(last.out.query)
    /\ (Returned("CRUDService.List") /\ Len(last.out.executed) > 0) =>
          \A f \in SearchedFields({SearchTypeMulti, SearchTypeMultiSelect},
                                  last.params.Search, IsArr) :
             LET a == last.params.Search[f].a
                 on == SelectSeq(WheresOf(last), LAMBDA w : w.text[1] = f)
             IN /\ Len(a) > 0 => /\ Len(on) = 1
                                 /\ on[1].text = <<f, " IN ?">>
                                 /\ on[1].args = <<Arr(a)>>
                /\ Len(a) = 0 => Len(on) = 0

\* a bound of a range value that is present and not null
HasBound(value, k) == k \in DOMAIN value.m /\ ~IsNil(value.m[k])

\* the bounds a range value gives, lower first
BoundsOf(value, lower, upper) ==
    (IF HasBound(value, lower) THEN <<value.m[lower]>> ELSE <<>>)
    \o (IF HasBound(value, upper) THEN <<value.m[upper]>> ELSE <<>>)

\* what C13 asks of a call for the fields of type `type` with bounds named lower, upper
BoundsBecomeComparisons(type, lower, upper) ==
    /\ Returned("QueryGenerator.GenerateQuery") =>
          \A f \in SearchedFields({type}, last.params.Search, IsObj) :
             LET v == last.params.Search[f]
             IN /\ ~last.out.err.failed
                /\ HasBound(v, lower) <=> HasRun(last.out.query, <<f, " >= $">>)
                /\ HasBound(v, upper) <=> HasRun(last.out.query, <<f, " <= $">>)
                /\ HasRun(last.out.args, BoundsOf(v, lower, upper))
                /\ Len(last.out.args) <= Len(BoundsOf(v, lower, upper))
                                         + Cardinality(DOMAIN last.params.Search \ {f})
    /\ (Returned("CRUDService.List") /\ Len(last.out.executed) > 0) =>
          \A f \in SearchedFields({type}, last.params.Search, IsObj) :
             LET v == last.params.Search[f]
                 on == SelectSeq(WheresOf(last), LAMBDA w : w.text[1] = f)
             IN on = (IF HasBound(v, lower) THEN <<Where(<<f, " >= ?">>, <<v.m[lower]>>)>>
                      ELSE <<>>)
                     \o (IF HasBound(v, upper) THEN <<Where(<<f, " <= ?">>, <<v.m[upper]>>)>>
                         ELSE <<>>)

\* C13: for a range value {min, max} and a date_range value {start, end}, the
\* predicate `column >= ?` is emitted exactly when the lower bound is present and not
\* null, `column <= ?` exactly when the upper bound is, each with one bound argument
C13_BoundsEmittedIndependently ==
    /\ BoundsBecomeComparisons(SearchTypeRange, "min", "max")
    /\ BoundsBecomeComparisons(SearchTypeDateRange, "start", "end")

\* the requested sort of a TableBuilder.List call names sortable fields only
AllSortable(sorts) ==
    \A i \in 1..Len(sorts) :
        \E j \in 1..Len(tableInfo.Fields) :
            tableInfo.Fields[j].Name = sorts[i].Field /\ tableInfo.Fields[j].Sortable

\* the column of a field of the table
ColumnOf(field) ==
    (CHOOSE f \in SeqToSet(tableInfo.Fields) : f.Name = field).ColumnName

\* the requested sort of a GenerateQuery call names whitelisted fields only, each with
\* a direction or none
AllWhitelisted(sorts) ==
    \A i \in 1..Len(sorts) :
        /\ sorts[i].Field \in SeqToSet(config.QuerySortableFields)
        /\ sorts[i].Order \in {SortOrderASC, SortOrderDESC, ""}

\* C14: when every requested sort field is sortable, the SELECT of TableBuilder.List
\* and of QueryGenerator.GenerateQuery has an ORDER BY clause that lists exactly the
\* requested fields, in request order, each with its direction (ASC when none is given)
C14_OrderByInRequestOrder ==
    /\ (Succeeded("TableBuilder.List") /\ Len(last.req.Sort) > 0 /\ AllSortable(last.req.Sort)) =>
          HasRun(last.out.resp.SQL,
                 <<" ORDER BY ">>
                 \o Join([i \in 1..Len(last.req.Sort) |->
                            <<ColumnOf(last.req.Sort[i].Field),
                              IF last.req.Sort[i].Desc THEN " DESC" ELSE " ASC">>], <<", ">>)
                 \o <<" LIMIT ">>)
    /\ (Succeeded("QueryGenerator.GenerateQuery") /\ Len(last.params.Sort) > 0
            /\ AllWhitelisted(last.params.Sort)) =>
          HasRun(last.out.query,
                 <<" ORDER BY ">>
                 \o Join([i \in 1..Len(last.params.Sort) |->
                            <<last.params.Sort[i].Field, " ",
                              IF last.params.Sort[i].Order = SortOrderDESC THEN "DESC"
                              ELSE "ASC">>], <<", ">>))

----------------------------------------------------------------------------
(* strings: a Go string is the sequence of its characters *)

Chars(s) == [i \in 1..Len(s) |-> SubSeq(s, i, i)]

RECURSIVE Text(_)
Text(chars) ==
    IF Len(chars) = 0 THEN ""
    ELSE IF Len(chars) = 1 THEN chars[1]
    ELSE Text(SubSeq(chars, 1, Len(chars) \div 2))
         \o Text(SubSeq(chars, Len(chars) \div 2 + 1, Len(chars)))

LowerLetters == Chars("abcdefghijklmnopqrstuvwxyz")
UpperLetters == Chars("ABCDEFGHIJKLMNOPQRSTUVWXYZ")

LetterIn(letters, c) == {i \in 1..Len(letters) : letters[i] = c}

\* strings.ToLower, strings.ToUpper
ToLower(s) ==
    [i \in 1..Len(s) |->
        IF LetterIn(UpperLetters, s[i]) # {}
        THEN LowerLetters[CHOOSE k \in LetterIn(UpperLetters, s[i]) : TRUE] ELSE s[i]]
ToUpper(s) ==
    [i \in 1..Len(s) |->
        IF LetterIn(LowerLetters, s[i]) # {}
        THEN UpperLetters[CHOOSE k \in LetterIn(LowerLetters, s[i]) : TRUE] ELSE s[i]]

\* the characters \s matches, and \d
IsSpace(c) == c \in {" ", "\t", "\n", "\r", "\f"}
IsDigit(c) == c \in SeqToSet(DigitChars)

\* s without the leading and trailing characters that satisfy cut
TrimFunc(s, cut(_)) ==
    LET keep == {i \in 1..Len(s) : ~cut(s[i])}
    IN IF keep = {} THEN <<>>
       ELSE SubSeq(s, CHOOSE i \in keep : \A j \in keep : i <= j,
                      CHOOSE i \in keep : \A j \in keep : j <= i)

\* strings.TrimSpace, and strings.Trim with a cutset of one character
TrimSpace(s) == TrimFunc(s, IsSpace)
Trim(s, c) == TrimFunc(s, LAMBDA x : x = c)

\* strings.HasPrefix, strings.Contains
HasPrefix(s, prefix) == Len(prefix) <= Len(s) /\ SubSeq(s, 1, Len(prefix)) = prefix
Contains(s, substr) ==
    \E i \in 0..(Len(s) - Len(substr)) : SubSeq(s, i + 1, i + Len(substr)) = substr

\* the first index at or after i whose character does not satisfy class
Skip(s, i, class(_)) ==
    IF i > Len(s) THEN i
    ELSE CHOOSE j \in i..(Len(s) + 1) :
            /\ j = Len(s) + 1 \/ ~class(s[j])
            /\ \A k \in i..(j - 1) : class(s[k])

----------------------------------------------------------------------------
(* parser.PostgreSQLParser; a types.PostgreSQLType is the string it stands for *)


Least(S) == CHOOSE x \in S : \A y \in S : x <= y

\* a set of numbers in increasing order
Sorted(S) == [k \in 1..Cardinality(S) |-> CHOOSE x \in S : Cardinality({y \in S : y < x}) = k - 1]

\* the indices from i on that the scanning loops reach with inQuotes set: a quote opens
\* a quoted run, the same quote closes it
RECURSIVE QuotedFrom(_, _)
QuotedFrom(s, i) ==
    LET opens == {a \in i..Len(s) : s[a] \in {"\"", "'"}}
        a == Least(opens)
        closes == {b \in (a + 1)..Len(s) : s[b] = s[a]}
    IN IF opens = {} THEN {}
       ELSE IF closes = {} THEN (a + 1)..Len(s)
       ELSE ((a + 1)..Least(closes)) \cup QuotedFrom(s, Least(closes) + 1)

\* depth when the loops reach index i: the parentheses outside quotes opened and not closed
DepthAt(s, quoted, i) ==
    Cardinality({j \in 1..(i - 1) : s[j] = "(" /\ j \notin quoted})
    - Cardinality({j \in 1..(i - 1) : s[j] = ")" /\ j \notin quoted})

\* the runs of s between the indices seps
Cut(s, seps) ==
    LET b == Sorted(seps \cup {0, Len(s) + 1})
    IN [k \in 1..(Len(b) - 1) |-> SubSeq(s, b[k] + 1, b[k + 1] - 1)]

\* splitFieldDefinition: the words of a column definition, split at the white space that
\* is outside quotes and parentheses
splitFieldDefinition(fieldStr) ==
    LET quoted == QuotedFrom(fieldStr, 1)
        seps == {i \in 1..Len(fieldStr) :
                    /\ fieldStr[i] \in {" ", "\t", "\n"}
                    /\ i \notin quoted
                    /\ DepthAt(fieldStr, quoted, i) <= 0}
    IN SelectSeq(Cut(fieldStr, seps), LAMBDA part : part # <<>>)

\* `^(numeric|decimal)\s*\(\s*(\d+)\s*(?:,\s*(\d+))?\s*\)$`
numericRegex(s) ==
    LET named == HasPrefix(s, Chars("numeric")) \/ HasPrefix(s, Chars("decimal"))
        open == Skip(s, 8, IsSpace)
        p1 == Skip(s, open + 1, IsSpace)
        p2 == Skip(s, p1, IsDigit)
        sep == Skip(s, p2, IsSpace)
        scaled == sep <= Len(s) /\ s[sep] = ","
        s1 == Skip(s, sep + 1, IsSpace)
        s2 == Skip(s, s1, IsDigit)
        close == IF scaled /\ s2 > s1 THEN Skip(s, s2, IsSpace) ELSE sep
    IN IF /\ named
          /\ open <= Len(s) /\ s[open] = "("
          /\ p2 > p1
          /\ close = Len(s) /\ s[close] = ")"
       THEN [ok |-> TRUE, precision |-> SubSeq(s, p1, p2 - 1),
             scale |-> IF scaled THEN SubSeq(s, s1, s2 - 1) ELSE <<>>]
       ELSE [ok |-> FALSE, precision |-> <<>>, scale |-> <<>>]

\* `^(varchar|char|bit|varbit)\s*\(\s*(\d+)\s*\)$`
sizedRegex(s) ==
    LET names == <<"varchar", "char", "bit", "varbit">>
        sized(n) ==
            LET open == Skip(s, Len(n) + 1, IsSpace)
                d1 == Skip(s, open + 1, IsSpace)
                d2 == Skip(s, d1, IsDigit)
                close == Skip(s, d2, IsSpace)
            IN IF /\ HasPrefix(s, Chars(n))
                  /\ open <= Len(s) /\ s[open] = "("
                  /\ d2 > d1
                  /\ close = Len(s) /\ s[close] = ")"
               THEN SubSeq(s, d1, d2 - 1) ELSE <<>>
        hits == {i \in 1..Len(names) : sized(names[i]) # <<>>}
        hit == CHOOSE i \in hits : \A j \in hits : i <= j
    IN IF hits = {} THEN [ok |-> FALSE, name |-> "", size |-> <<>>]
       ELSE [ok |-> TRUE, name |-> names[hit], size |-> sized(names[hit])]

\* `^(.+)\[\]$`
arrayRegex(s) ==
    /\ Len(s) >= 3
    /\ SubSeq(s, Len(s) - 1, Len(s)) = <<"[", "]">>
    /\ \A i \in 1..(Len(s) - 2) : s[i] # "\n"

typeMap ==
    << <<"integer", "integer">>, <<"int", "integer">>,
       <<"int4", "integer">>, <<"bigint", "bigint">>,
       <<"int8", "bigint">>, <<"smallint", "smallint">>,
       <<"int2", "smallint">>, <<"numeric", "numeric">>,
       <<"decimal", "numeric">>, <<"real", "real">>,
       <<"float4", "real">>, <<"double precision", "double precision">>,
       <<"float8", "double precision">>, <<"text", "text">>,
       <<"varchar", "varchar">>, <<"character varying", "varchar">>,
       <<"char", "char">>, <<"character", "char">>,
       <<"bytea", "bytea">>, <<"boolean", "boolean">>,
       <<"bool", "boolean">>, <<"date", "date">>,
       <<"time", "time">>, <<"timestamp", "timestamp">>,
       <<"timestamp without time zone", "timestamp">>,
       <<"timestamptz", "timestamptz">>,
       <<"timestamp with time zone", "timestamptz">>,
       <<"interval", "interval">>, <<"json", "json">>,
       <<"jsonb", "jsonb">>, <<"uuid", "uuid">> >>

DataType(type, length, precision, scale) ==
    [err |-> NoError, type |-> type, length |-> length, precision |-> precision,
     scale |-> scale]

\* parseDataType: the normalized type, length, precision and scale of a type string
parseDataType(typeStr0) ==
    LET typeStr == ToLower(TrimSpace(typeStr0))
        n == numericRegex(typeStr)
        z == sizedRegex(typeStr)
        known == {i \in 1..Len(typeMap) : Chars(typeMap[i][1]) = typeStr}
    IN IF n.ok
       THEN DataType("numeric", 0, DigitsValue(n.precision),
                     IF n.scale # <<>> THEN DigitsValue(n.scale) ELSE 0)
       ELSE IF z.ok /\ z.name = "varchar"
       THEN DataType("varchar", DigitsValue(z.size), 0, 0)
       ELSE IF z.ok /\ z.name = "char"
       THEN DataType("char", DigitsValue(z.size), 0, 0)
       ELSE IF arrayRegex(typeStr) THEN DataType("array", 0, 0, 0)
       ELSE IF known # {} THEN DataType(typeMap[CHOOSE i \in known : TRUE][2], 0, 0, 0)
       ELSE [err |-> Error("unsupported PostgreSQL type"), type |-> "", length |-> 0,
             precision |-> 0, scale |-> 0]

\* parseField: one column definition; the column's default is not carried
parseField(fieldStr0) ==
    LET fieldStr == TrimSpace(fieldStr0)
        parts == splitFieldDefinition(fieldStr)
        t == parseDataType(parts[2])
        constraintStr == ToUpper(Join(SubSeq(parts, 3, Len(parts)), <<" ">>))
    IN IF Len(parts) < 2
       THEN [err |-> Error("invalid field definition"), field |-> Nil]
       ELSE IF t.err.failed
       THEN [err |-> Error("failed to parse data type"), field |-> Nil]
       ELSE [err |-> NoError,
             field |-> [Name |-> Text(Trim(parts[1], "\"")),
                        Type |-> t.type, Length |-> t.length,
                        Precision |-> t.precision, Scale |-> t.scale,
                        NotNull |-> Contains(constraintStr, Chars("NOT NULL")),
                        PrimaryKey |-> Contains(constraintStr, Chars("PRIMARY KEY")),
                        Unique |-> Contains(constraintStr, Chars("UNIQUE"))]]

\* isConstraint: a table constraint rather than a column
isConstraint(fieldStr) ==
    \E c \in {"PRIMARY KEY", "FOREIGN KEY", "UNIQUE", "CHECK", "CONSTRAINT"} :
        HasPrefix(ToUpper(TrimSpace(fieldStr)), Chars(c))

\* parseFields: the columns of a table body, split at the commas that are outside quotes
\* and parentheses, or the first error
parseFields(fieldsContent) ==
    LET quoted == QuotedFrom(fieldsContent, 1)
        all == Cut(fieldsContent,
                   {i \in 1..Len(fieldsContent) :
                       /\ fieldsContent[i] = ","
                       /\ i \notin quoted
                       /\ DepthAt(fieldsContent, quoted, i) = 0})
        defs == SelectSeq([i \in 1..Len(all) |-> TrimSpace(all[i])],
                          LAMBDA d : d # <<>> /\ ~isConstraint(d))
        parsed == [i \in 1..Len(defs) |-> parseField(defs[i])]
        bad == {i \in 1..Len(parsed) : parsed[i].err.failed}
    IN IF bad # {} THEN [err |-> Error("failed to parse field"), fields |-> <<>>]
       ELSE [err |-> NoError, fields |-> [i \in 1..Len(parsed) |-> parsed[i].field]]

\* the word w at index i of s, in any letter case
WordAt(s, i, w) == i + Len(w) - 1 <= Len(s) /\ ToUpper(SubSeq(s, i, i + Len(w) - 1)) = Chars(w)

\* `(?i)CREATE\s+TABLE\s+(?:IF\s+NOT\s+EXISTS\s+)?([^\s(]+)` matched at index i: the
\* captured name, <<>> when there is no match at i
tableNameAt(s, i) ==
    LET named(c) == ~IsSpace(c) /\ c # "("
        a == Skip(s, i + 6, IsSpace)
        b == Skip(s, a + 5, IsSpace)
        n1 == Skip(s, b + 2, IsSpace)
        e1 == Skip(s, n1 + 3, IsSpace)
        long == Skip(s, e1 + 6, IsSpace)
        guarded == /\ WordAt(s, b, "IF") /\ n1 > b + 2
                   /\ WordAt(s, n1, "NOT") /\ e1 > n1 + 3
                   /\ WordAt(s, e1, "EXISTS") /\ long > e1 + 6
                   /\ Skip(s, long, named) > long
        from == IF guarded THEN long ELSE b
    IN IF WordAt(s, i, "CREATE") /\ a > i + 6 /\ WordAt(s, a, "TABLE") /\ b > a + 5
       THEN SubSeq(s, from, Skip(s, from, named) - 1)
       ELSE <<>>

tableNameRegex(s) ==
    LET hits == {i \in 1..Len(s) : tableNameAt(s, i) # <<>>}
    IN IF hits = {} THEN <<>> ELSE tableNameAt(s, CHOOSE i \in hits : \A j \in hits : i <= j)

\* `(?i)\(\s*(.+)\s*\)` matched at the parenthesis at index p: the captured body, <<>>
\* when there is no match at p; `.` matches no line feed, and the quantifiers are greedy
fieldsAt(s, p) ==
    LET starts == (p + 1)..Skip(s, p + 1, IsSpace)
        ends(q) == {e \in q..(Skip(s, q, LAMBDA c : c # "\n") - 1) :
                      LET r == Skip(s, e + 1, IsSpace) IN r <= Len(s) /\ s[r] = ")"}
        ok == {q \in starts : q <= Len(s) /\ ends(q) # {}}
        q0 == CHOOSE q \in ok : \A r \in ok : r <= q
    IN IF s[p] # "(" \/ ok = {} THEN <<>>
       ELSE SubSeq(s, q0, CHOOSE e \in ends(q0) : \A f \in ends(q0) : f <= e)

fieldsRegex(s) ==
    LET hits == {p \in 1..Len(s) : fieldsAt(s, p) # <<>>}
    IN IF hits = {} THEN <<>> ELSE fieldsAt(s, CHOOSE p \in hits : \A r \in hits : p <= r)

\* ParseCreateStatement: the schema of a CREATE TABLE statement, or an error
ParseCreateStatement(createSQL0) ==
    LET createSQL == TrimSpace(createSQL0)
        name == tableNameRegex(createSQL)
        fieldsContent == fieldsRegex(createSQL)
        f == parseFields(fieldsContent)
    IN IF name = <<>>
       THEN [err |-> Error("cannot extract table name from CREATE statement"),
             schema |-> Nil]
       ELSE IF fieldsContent = <<>>
       THEN [err |-> Error("cannot extract fields from CREATE statement"), schema |-> Nil]
       ELSE IF f.err.failed THEN [err |-> Error("failed to parse fields"), schema |-> Nil]
       ELSE [err |-> NoError,
             schema |-> [TableName |-> Text(Trim(name, "\"")), Fields |-> f.fields]]

----------------------------------------------------------------------------
(* The CREATE TABLE statements given to the parser *)

\* type strings: those of the type map, with and without sizes, and others
TypeStrings ==
    {"integer", "int", "int4", "bigint", "int8", "smallint", "int2", "numeric", "decimal",
      "numeric(10,2)", "numeric(10)", "decimal(8, 3)", "real", "float4", "double precision",
      "float8", "text", "varchar", "varchar(50)", "character varying", "char", "char(3)",
      "character", "bytea", "boolean", "bool", "date", "time", "timestamp",
      "timestamp without time zone", "timestamptz", "timestamp with time zone", "interval",
      "json", "jsonb", "uuid", "integer[]", "text[]", "serial", "money", "xml", "double",
      "bit(8)", "varbit(8)", "varchar(x)", "numeric(10,)", "float" }

\* a type string as written, in upper case, and capitalised
Casings(typeStr) ==
    {Chars(typeStr), ToUpper(Chars(typeStr)),
     ToUpper(SubSeq(Chars(typeStr), 1, 1)) \o SubSeq(Chars(typeStr), 2, Len(typeStr))}

\* the statement of a table with the one column c
ColumnStatement(typeStr) == Chars("CREATE TABLE t (c ") \o typeStr \o Chars(")")

\* the statements of README.md, of the package documentation (on several lines), of the
\* loader tests, and two of the same form with integer keys
Documents ==
    { "CREATE TABLE users (id SERIAL PRIMARY KEY, name VARCHAR(100) NOT NULL, email VARCHAR(255) UNIQUE NOT NULL, age INTEGER, status VARCHAR(20) DEFAULT 'active', created_at TIMESTAMP DEFAULT CURRENT_TIMESTAMP)",
      "CREATE TABLE users (\n        id SERIAL PRIMARY KEY,\n        username VARCHAR(50) UNIQUE NOT NULL,\n        email VARCHAR(100) UNIQUE NOT NULL,\n        created_at TIMESTAMP DEFAULT CURRENT_TIMESTAMP\n    )",
      "CREATE TABLE test_table (id SERIAL PRIMARY KEY, name VARCHAR(100) NOT NULL)",
      "CREATE TABLE users (id SERIAL PRIMARY KEY)",
      "CREATE TABLE users (id INTEGER PRIMARY KEY, name VARCHAR(100), age INT)",
      "CREATE TABLE users (\n    id INTEGER PRIMARY KEY,\n    name VARCHAR(100),\n    age INT\n)" }

MaxDefinitions == 2

\* definitions of a table body: the text, and the column's name ("" for a table constraint)
Definitions ==
    { [text |-> "id INTEGER PRIMARY KEY", column |-> "id"],
      [text |-> "price NUMERIC(10,2) NOT NULL", column |-> "price"],
      [text |-> "status VARCHAR(20) DEFAULT 'a,b'", column |-> "status"],
      [text |-> "\"first,last\" TEXT", column |-> "first,last"],
      [text |-> "unique_id INTEGER", column |-> "unique_id"],
      [text |-> "check_in DATE", column |-> "check_in"],
      [text |-> "PRIMARY KEY (id, price)", column |-> ""],
      [text |-> "foreign key (id) references owners(id, kind)", column |-> ""],
      [text |-> "UNIQUE (id, price)", column |-> ""],
      [text |-> "Check (price > 0)", column |-> ""],
      [text |-> "CONSTRAINT pk PRIMARY KEY (id, price)", column |-> ""] }

\* the table bodies of up to MaxDefinitions different definitions
Bodies ==
    {b \in UNION {[1..n -> Definitions] : n \in 1..MaxDefinitions} :
        \A i, j \in DOMAIN b : i # j => b[i] # b[j]}

\* the statement of a table with the definitions of b, separated by commas
BodyStatement(b) ==
    Chars("CREATE TABLE t (")
        \o Join([i \in DOMAIN b |-> Chars(b[i].text)], Chars(", ")) \o Chars(")")

\* a request: the statement, the type string of its column when it has just one, and
\* the definitions the statement was written from
CreateRequests ==
    {[typeStr |-> Text(t), createSQL |-> ColumnStatement(t), definitions |-> <<>>] :
        t \in UNION {Casings(s) : s \in TypeStrings}}
    \cup {[typeStr |-> "", createSQL |-> Chars(d), definitions |-> <<>>] : d \in Documents}
    \cup {[typeStr |-> "", createSQL |-> BodyStatement(b), definitions |-> b] : b \in Bodies}

----------------------------------------------------------------------------
(* The parser as a state machine *)

InitParse ==
    /\ pc = "ready"
    /\ tableInfo = TableInfoOf("extended_user", ExtendedUserFields(TRUE))
    /\ schema = UsersSchema(TRUE)
    /\ config = ConfigRow(TRUE, <<>>, <<>>, <<>>, <<>>)
    /\ rows = <<>>
    /\ configurations = <<config>>
    /\ manager = NewManager
    /\ goroutines = <<>>
    /\ last = Idle

\* PostgreSQLParser.ParseCreateStatement(createSQL)
PostgreSQLParserParse ==
    \E r \in CreateRequests :
        Answer([op |-> "PostgreSQLParser.ParseCreateStatement", typeStr |-> r.typeStr,
                createSQL |-> Text(r.createSQL), definitions |-> r.definitions,
                out |-> ParseCreateStatement(r.createSQL)])

NextParse ==
    \/ PostgreSQLParserParse
    \/ Respond

SpecParse == InitParse /\ [][NextParse]_vars

----------------------------------------------------------------------------
(* Properties of the parser *)

\* what C15 says of the type strings of the model: type, length, precision, scale
NormalizedTypes ==
    << <<"integer", "integer", 0, 0, 0>>,
       <<"int", "integer", 0, 0, 0>>,
       <<"int4", "integer", 0, 0, 0>>,
       <<"bigint", "bigint", 0, 0, 0>>,
       <<"int8", "bigint", 0, 0, 0>>,
       <<"smallint", "smallint", 0, 0, 0>>,
       <<"int2", "smallint", 0, 0, 0>>,
       <<"numeric", "numeric", 0, 0, 0>>,
       <<"decimal", "numeric", 0, 0, 0>>,
       <<"numeric(10,2)", "numeric", 0, 10, 2>>,
       <<"numeric(10)", "numeric", 0, 10, 0>>,
       <<"decimal(8, 3)", "numeric", 0, 8, 3>>,
       <<"real", "real", 0, 0, 0>>,
       <<"float4", "real", 0, 0, 0>>,
       <<"double precision", "double precision", 0, 0, 0>>,
       <<"float8", "double precision", 0, 0, 0>>,
       <<"text", "text", 0, 0, 0>>,
       <<"varchar", "varchar", 0, 0, 0>>,
       <<"varchar(50)", "varchar", 50, 0, 0>>,
       <<"character varying", "varchar", 0, 0, 0>>,
       <<"char", "char", 0, 0, 0>>,
       <<"char(3)", "char", 3, 0, 0>>,
       <<"character", "char", 0, 0, 0>>,
       <<"bytea", "bytea", 0, 0, 0>>,
       <<"boolean", "boolean", 0, 0, 0>>,
       <<"bool", "boolean", 0, 0, 0>>,
       <<"date", "date", 0, 0, 0>>,
       <<"time", "time", 0, 0, 0>>,
       <<"timestamp", "timestamp", 0, 0, 0>>,
       <<"timestamp without time zone", "timestamp", 0, 0, 0>>,
       <<"timestamptz", "timestamptz", 0, 0, 0>>,
       <<"timestamp with time zone", "timestamptz", 0, 0, 0>>,
       <<"interval", "interval", 0, 0, 0>>,
       <<"json", "json", 0, 0, 0>>,
       <<"jsonb", "jsonb", 0, 0, 0>>,
       <<"uuid", "uuid", 0, 0, 0>>,
       <<"integer[]", "array", 0, 0, 0>>,
       <<"text[]", "array", 0, 0, 0>> >>

Normalized(typeStr) ==
    {i \in 1..Len(NormalizedTypes) : Chars(NormalizedTypes[i][1]) = ToLower(Chars(typeStr))}

\* C15: for a table of one column, ParseCreateStatement maps the column's type string,
\* in any letter case, to its normalized type with the length of varchar(n) and char(n),
\* the precision and scale of numeric(p[,s]) and 0 for every other size, and returns an
\* error and no schema for every type string outside the supported set
C15_TypeStringsNormalized ==
    (Returned("PostgreSQLParser.ParseCreateStatement") /\ last.typeStr # "") =>
        IF Normalized(last.typeStr) = {}
        THEN last.out.err.failed /\ last.out.schema = Nil
        ELSE LET n == NormalizedTypes[CHOOSE i \in Normalized(last.typeStr) : TRUE]
             IN /\ ~last.out.err.failed
                /\ Len(last.out.schema.Fields) = 1
                /\ last.out.schema.Fields[1].Name = "c"
                /\ last.out.schema.Fields[1].Type = n[2]
                /\ last.out.schema.Fields[1].Length = n[3]
                /\ last.out.schema.Fields[1].Precision = n[4]
                /\ last.out.schema.Fields[1].Scale = n[5]

\* the statements of the documentation with a serial column, and the columns they list
SerialDocuments ==
    << <<"CREATE TABLE users (id SERIAL PRIMARY KEY, name VARCHAR(100) NOT NULL, email VARCHAR(255) UNIQUE NOT NULL, age INTEGER, status VARCHAR(20) DEFAULT 'active', created_at TIMESTAMP DEFAULT CURRENT_TIMESTAMP)",
         <<"id", "name", "email", "age", "status", "created_at">> >>,
       <<"CREATE TABLE users (\n        id SERIAL PRIMARY KEY,\n        username VARCHAR(50) UNIQUE NOT NULL,\n        email VARCHAR(100) UNIQUE NOT NULL,\n        created_at TIMESTAMP DEFAULT CURRENT_TIMESTAMP\n    )",
         <<"id", "username", "email", "created_at">> >>,
       <<"CREATE TABLE test_table (id SERIAL PRIMARY KEY, name VARCHAR(100) NOT NULL)",
         <<"id", "name">> >>,
       <<"CREATE TABLE users (id SERIAL PRIMARY KEY)", <<"id">> >> >>

\* C16: ParseCreateStatement accepts the CREATE TABLE statements of the documentation,
\* on one line or on several: it returns a schema with every listed column, in which
\* the serial column id is an integer-typed primary key
C16_DocumentedStatementsAccepted ==
    Returned("PostgreSQLParser.ParseCreateStatement") =>
        \A i \in 1..Len(SerialDocuments) :
            last.createSQL = SerialDocuments[i][1] =>
                /\ ~last.out.err.failed
                /\ [k \in 1..Len(last.out.schema.Fields) |-> last.out.schema.Fields[k].Name]
                      = SerialDocuments[i][2]
                /\ last.out.schema.Fields[1].Type = "integer"
                /\ last.out.schema.Fields[1].PrimaryKey

----------------------------------------------------------------------------
(* gormparser.Parser *)

MaxNameLen == 3
MaxFields == 3

\* toSnakeCase: an upper-case letter that follows a lower-case letter or a digit gets an
\* underscore before it, and every upper-case letter is written in lower case
toSnakeCase(s) ==
    LET upper(c) == c \in SeqToSet(UpperLetters)
        lower(c) == c \in SeqToSet(LowerLetters)
        piece(i) == (IF i > 1 /\ upper(s[i]) /\ (lower(s[i - 1]) \/ IsDigit(s[i - 1]))
                     THEN <<"_">> ELSE <<>>)
                    \o ToLower(<<s[i]>>)
    IN Flatten([i \in 1..Len(s) |-> piece(i)])

\* a field of a struct type: its name, whether it is exported, and its gorm and order tags
StructField(name, exported, gorm, order) ==
    [Name |-> name, Exported |-> exported, Gorm |-> gorm, OrderTag |-> order]

DefaultOrder == 999

\* parseField with parseExtendedTags: nil for a field tagged gorm:"-", else the field
\* with its column name and its order, 999 unless the order tag is a number
ParsedField(field) ==
    LET order == Atoi(Chars(field.OrderTag))
    IN [Name |-> field.Name,
        ColumnName |-> Text(toSnakeCase(Chars(field.Name))),
        Order |-> IF field.OrderTag # "" /\ order.ok THEN order.n ELSE DefaultOrder]

\* the inner and the outer loop of sortFieldsByOrder
RECURSIVE SortInner(_, _, _)
SortInner(fields, i, j) ==
    IF j > Len(fields) THEN fields
    ELSE SortInner(IF fields[i].Order > fields[j].Order
                   THEN [fields EXCEPT ![i] = fields[j], ![j] = fields[i]]
                   ELSE fields,
                   i, j + 1)

RECURSIVE SortOuter(_, _)
SortOuter(fields, i) ==
    IF i > Len(fields) THEN fields ELSE SortOuter(SortInner(fields, i, i + 1), i + 1)

sortFieldsByOrder(fields) == SortOuter(fields, 1)

\* ParseStruct on a struct type: its name and the fields it keeps, sorted
ParseStruct(name, structFields) ==
    LET kept == SelectSeq(structFields, LAMBDA f : f.Exported /\ f.Gorm # "-")
    IN [err |-> NoError,
        tableInfo |-> [Name |-> Text(toSnakeCase(Chars(name))),
                       Fields |-> sortFieldsByOrder([i \in 1..Len(kept) |-> ParsedField(kept[i])])]]

\* the ExtendedUser model with its order tags
ExtendedUser ==
    << StructField("ID", TRUE, "primaryKey;autoIncrement", "1"),
       StructField("Username", TRUE, "size:50;not null;unique", "2"),
       StructField("Email", TRUE, "size:100;not null;unique", "3"),
       StructField("Password", TRUE, "size:255;not null", "10"),
       StructField("Age", TRUE, "", "4"),
       StructField("Status", TRUE, "", "5"),
       StructField("Balance", TRUE, "precision:10;scale:2;default:0.00", "6"),
       StructField("IsActive", TRUE, "default:true", "7"),
       StructField("CreatedAt", TRUE, "", "8"),
       StructField("UpdatedAt", TRUE, "", "9") >>

\* the names of TestToSnakeCase
TestNames ==
    {"ID", "Username", "IsActive", "CreatedAt", "UpdatedAt", "DeletedAt", "UserID",
     "XMLParser", "HTTPResponse", "APIKey", "IOError"}

\* names over a small alphabet
Names ==
    {Chars(n) : n \in TestNames}
    \cup (SeqsUpTo({"a", "B", "C", "1", "_"}, MaxNameLen) \ {<<>>})

FieldNameAt == <<"A", "B", "C", "D", "E">>

\* struct types with a few fields: exported, unexported or ignored, with an order tag
\* that is absent, a number, or not a number
FieldKinds ==
    {[Exported |-> TRUE, Gorm |-> "", OrderTag |-> o] : o \in {"", "1", "2", "x"}}
    \cup {[Exported |-> FALSE, Gorm |-> "", OrderTag |-> "1"],
          [Exported |-> TRUE, Gorm |-> "-", OrderTag |-> "1"]}

Structs ==
    {[i \in 1..Len(kinds) |->
        StructField(FieldNameAt[i], kinds[i].Exported, kinds[i].Gorm, kinds[i].OrderTag)] :
        kinds \in SeqsUpTo(FieldKinds, MaxFields)}

InitStruct ==
    /\ pc = "ready"
    /\ tableInfo = TableInfoOf("extended_user", ExtendedUserFields(TRUE))
    /\ schema = UsersSchema(TRUE)
    /\ config = ConfigRow(TRUE, <<>>, <<>>, <<>>, <<>>)
    /\ rows = <<>>
    /\ configurations = <<config>>
    /\ manager = NewManager
    /\ goroutines = <<>>
    /\ last = Idle

\* toSnakeCase(s)
SnakeCase ==
    /\ pc = "ready"
    /\ \E s \in Names :
          last' = [op |-> "toSnakeCase", s |-> Text(s), out |-> Text(toSnakeCase(s))]
    /\ pc' = "returned"
    /\ UNCHANGED <<tableInfo, schema, config, rows, configurations, manager, goroutines>>

\* Parser.ParseStruct(model)
ParserParseStruct ==
    /\ pc = "ready"
    /\ \E model \in Structs \cup {ExtendedUser} :
          last' = [op |-> "Parser.ParseStruct", model |-> model,
                   out |-> ParseStruct(IF model = ExtendedUser THEN "ExtendedUser" ELSE "Model",
                                       model)]
    /\ pc' = "returned"
    /\ UNCHANGED <<tableInfo, schema, config, rows, configurations, manager, goroutines>>

NextStruct ==
    \/ SnakeCase
    \/ ParserParseStruct
    \/ Respond

SpecStruct == InitStruct /\ [][NextStruct]_vars

----------------------------------------------------------------------------
(* Properties of the struct parser *)

\* the examples of C17
SnakeExamples ==
    << <<"ID", "id">>, <<"IsActive", "is_active">>, <<"UserID", "user_id">>,
       <<"XMLParser", "xml_parser">>, <<"HTTPResponse", "http_response">>,
       <<"APIKey", "api_key">>, <<"IOError", "io_error">> >>

\* a word starts at index i of s: an upper-case letter after a lower-case letter or a
\* digit, or the last upper-case letter of a run that a lower-case letter follows
WordStartsAt(s, i) ==
    LET upper(c) == c \in SeqToSet(UpperLetters)
        lower(c) == c \in SeqToSet(LowerLetters)
    IN /\ i > 1
       /\ upper(s[i])
       /\ \/ lower(s[i - 1]) \/ IsDigit(s[i - 1])
          \/ upper(s[i - 1]) /\ i < Len(s) /\ lower(s[i + 1])

\* C17: toSnakeCase writes its input in lower case with an underscore at every word
\* boundary, the boundary between an acronym and a following capitalised word included:
\* ID gives id, IsActive is_active, UserID user_id, XMLParser xml_parser, HTTPResponse
\* http_response, APIKey api_key, IOError io_error
C17_SnakeCaseAtWordBoundaries ==
    Returned("toSnakeCase") =>
        /\ \A i \in 1..Len(SnakeExamples) :
              last.s = SnakeExamples[i][1] => last.out = SnakeExamples[i][2]
        /\ last.out = Text(Flatten([i \in 1..Len(last.s) |->
                                      (IF WordStartsAt(Chars(last.s), i) THEN <<"_">> ELSE <<>>)
                                      \o ToLower(<<Chars(last.s)[i]>>)]))

\* the names of the fields ParseStruct returned, in the order returned
ReturnedNames == [i \in 1..Len(last.out.tableInfo.Fields) |-> last.out.tableInfo.Fields[i].Name]

\* where the struct type of the call declares the field `name`, and the order its tag gives
DeclaredAt(name) == CHOOSE i \in 1..Len(last.model) : last.model[i].Name = name
TaggedOrder(name) ==
    LET tag == last.model[DeclaredAt(name)].OrderTag
    IN IF tag # "" /\ Atoi(Chars(tag)).ok THEN Atoi(Chars(tag)).n ELSE 999

\* C18: ParseStruct returns the exported fields that are not ignored, sorted by
\* ascending order tag with the untagged fields (order 999) last, fields of equal order
\* in their declaration order; for ExtendedUser that is ID, Username, Email, Age, Status,
\* Balance, IsActive, CreatedAt, UpdatedAt, Password
C18_FieldsSortedStably ==
    Returned("Parser.ParseStruct") =>
        /\ SeqToSet(ReturnedNames)
              = {last.model[i].Name : i \in {j \in 1..Len(last.model) :
                                                last.model[j].Exported /\ last.model[j].Gorm # "-"}}
        /\ \A i \in 1..(Len(ReturnedNames) - 1) :
              \/ TaggedOrder(ReturnedNames[i]) < TaggedOrder(ReturnedNames[i + 1])
              \/ /\ TaggedOrder(ReturnedNames[i]) = TaggedOrder(ReturnedNames[i + 1])
                 /\ DeclaredAt(ReturnedNames[i]) < DeclaredAt(ReturnedNames[i + 1])
        /\ last.model = ExtendedUser =>
              ReturnedNames = <<"ID", "Username", "Email", "Age", "Status", "Balance",
                                "IsActive", "CreatedAt", "UpdatedAt", "Password">>

----------------------------------------------------------------------------
(* services.ConfigService over table_configurations. A stored row has the id of
   its position: rows are inserted with the next id and never removed. *)

MaxConfigs == 2

\* the keys of DatabaseManager.dbConfigs
ConnectionIDs == {"main", "replica"}

\* a models.TableConfiguration as a caller binds it from a request body
UsersStatement == "CREATE TABLE users (id INTEGER PRIMARY KEY, name VARCHAR(100), age INT)"

TableConfiguration(connectionID, name, sortableFields, isActive, version) ==
    [ConnectionID |-> connectionID, Name |-> name, DBTableName |-> "users",
     CreateStatement |-> UsersStatement,
     QueryPagination |-> FALSE, QuerySortableFields |-> sortableFields,
     IsActive |-> isActive, Version |-> version]

\* validator.Struct: the required and min=2 tags
StructValid(request) ==
    /\ request.ConnectionID # ""
    /\ Len(request.Name) >= 2
    /\ request.DBTableName # ""
    /\ request.CreateStatement # ""

\* validateJSONFields: a JSON column that is not empty has to decode
validateJSONFields(request) ==
    request.QuerySortableFields = <<>> \/ UnmarshalStrings(request.QuerySortableFields).ok

\* the checks CreateConfig and UpdateConfig both start with
Rejection(request) ==
    CASE ~StructValid(request) -> Error("validation failed")
      [] ~validateJSONFields(request) -> Error("JSON validation failed")
      [] request.ConnectionID \notin ConnectionIDs -> Error("connection not found")
      [] OTHER -> NoError

\* the decoded form of query_sortable_fields, as CRUDService.List reads it
SortableOf(chars) ==
    LET decoded == UnmarshalStrings(chars).a
    IN [i \in 1..Len(decoded) |-> Text(decoded[i].s)]

\* UNIQUE(connection_id, name) of table_configurations
Taken(store, connectionID, name, except) ==
    \E i \in DOMAIN store \ {except} :
        store[i].ConnectionID = connectionID /\ store[i].Name = name

Stored(store, err) == [err |-> err, store |-> store]

\* ConfigService.CreateConfig: gorm writes the column default for a zero value of
\* query_pagination, is_active and version
CreateConfig(store, request, fault) ==
    LET row == [ID |-> Len(store) + 1,
                ConnectionID |-> request.ConnectionID,
                Name |-> request.Name,
                DBTableName |-> request.DBTableName,
                CreateStatement |-> request.CreateStatement,
                IsActive |-> TRUE,
                Version |-> IF request.Version = 0 THEN 1 ELSE request.Version,
                QueryPagination |-> TRUE,
                QuerySearchFields |-> <<>>,
                QuerySortableFields |-> SortableOf(request.QuerySortableFields),
                CreateCreatableFields |-> <<>>,
                UpdateUpdatableFields |-> <<>>]
    IN CASE Rejection(request).failed -> Stored(store, Rejection(request))
         [] fault = "exec" -> Stored(store, Error("database error"))
         [] Taken(store, request.ConnectionID, request.Name, 0) ->
              Stored(store, Error("duplicate key"))
         [] OTHER -> Stored(Append(store, row), NoError)

\* ConfigService.UpdateConfig: config.Version++ on the request, then Updates(config),
\* which writes the fields of the request that are not zero values
UpdateConfig(store, id, request, fault) ==
    LET version == request.Version + 1
        old == store[id]
        row == [old EXCEPT
                  !.ConnectionID = request.ConnectionID,
                  !.Name = request.Name,
                  !.DBTableName = request.DBTableName,
                  !.CreateStatement = request.CreateStatement,
                  !.QueryPagination = IF request.QueryPagination THEN TRUE ELSE @,
                  !.QuerySortableFields = IF request.QuerySortableFields # <<>>
                                          THEN SortableOf(request.QuerySortableFields) ELSE @,
                  !.IsActive = IF request.IsActive THEN TRUE ELSE @,
                  !.Version = IF version # 0 THEN version ELSE @]
    IN CASE Rejection(request).failed -> Stored(store, Rejection(request))
         [] fault = "exec" -> Stored(store, Error("database error"))
         [] id \notin DOMAIN store -> Stored(store, Error("configuration not found"))
         [] Taken(store, request.ConnectionID, request.Name, id) ->
              Stored(store, Error("duplicate key"))
         [] OTHER -> Stored([store EXCEPT ![id] = row], NoError)

\* ConfigService.DeleteConfig: Update("is_active", false) where id = ?
DeleteConfig(store, id, fault) ==
    CASE fault = "exec" -> Stored(store, Error("database error"))
      [] id \notin DOMAIN store -> Stored(store, NoError)
      [] OTHER -> Stored([store EXCEPT ![id].IsActive = FALSE], NoError)

\* ConfigService.GetConfigs: the active rows, of one connection if one is named
GetConfigs(store, connectionID) ==
    [err |-> NoError,
     configs |-> {store[i] : i \in {j \in DOMAIN store :
                      /\ store[j].IsActive
                      /\ connectionID = "" \/ store[j].ConnectionID = connectionID}}]

Found(row) == [err |-> NoError, config |-> row]
RecordNotFound == [err |-> Error("record not found"), config |-> Nil]

\* ConfigService.GetConfigByID: First(&config, id)
GetConfigByID(store, id) ==
    IF id \in DOMAIN store THEN Found(store[id]) ELSE RecordNotFound

\* ConfigService.GetConfigByName and CRUDService.GetConfigByName:
\* Where("name = ? AND is_active = ?", name, true).First, the lowest id first
GetConfigByName(store, name) ==
    LET ids == {i \in DOMAIN store : store[i].Name = name /\ store[i].IsActive}
    IN IF ids = {} THEN RecordNotFound ELSE Found(store[Least(ids)])

----------------------------------------------------------------------------
(* The configuration store and the operations addressed by configuration name
   as a state machine *)

\* request bodies: two configurations of one name on two connections, with the
\* version and is_active a body may carry, and bodies the checks reject
ConfigRequests ==
    {TableConfiguration(c, "users", <<>>, a, v) :
        c \in ConnectionIDs, a \in BOOLEAN, v \in {-1, 0, 3}}
    \cup {TableConfiguration("main", "users", JSONOneString, FALSE, 0),
          TableConfiguration("main", "users", JSONMinOnly, FALSE, 0),
          TableConfiguration("main", "u", <<>>, FALSE, 0),
          TableConfiguration("", "users", <<>>, FALSE, 0),
          TableConfiguration("ghost", "users", <<>>, FALSE, 0)}

ConfigIDs == 1..(MaxConfigs + 1)
ConfigNames == {"users", "orders"}
StoreFaults == {"none", "exec"}

InitConfig ==
    /\ pc = "ready"
    /\ tableInfo = TableInfoOf("extended_user", ExtendedUserFields(TRUE))
    /\ schema = UsersSchema(TRUE)
    /\ config = ConfigRow(TRUE, <<>>, <<>>, <<>>, <<>>)
    /\ rows = <<>>
    /\ configurations = <<>>
    /\ manager = NewManager
    /\ goroutines = <<>>
    /\ last = Idle

\* a call on the configuration store
Store(call) ==
    /\ pc = "ready"
    /\ Len(call.out.store) <= MaxConfigs
    /\ last' = call
    /\ configurations' = call.out.store
    /\ pc' = "returned"
    /\ UNCHANGED <<tableInfo, schema, config, rows, manager, goroutines>>

\* ConfigService.CreateConfig(config)
ConfigServiceCreateConfig ==
    \E request \in ConfigRequests, fault \in StoreFaults :
        Store([op |-> "ConfigService.CreateConfig", request |-> request, fault |-> fault,
               out |-> CreateConfig(configurations, request, fault)])

\* ConfigService.UpdateConfig(id, config)
ConfigServiceUpdateConfig ==
    \E id \in ConfigIDs, request \in ConfigRequests, fault \in StoreFaults :
        Store([op |-> "ConfigService.UpdateConfig", id |-> id, request |-> request,
               fault |-> fault, out |-> UpdateConfig(configurations, id, request, fault)])

\* ConfigService.DeleteConfig(id)
ConfigServiceDeleteConfig ==
    \E id \in ConfigIDs, fault \in StoreFaults :
        Store([op |-> "ConfigService.DeleteConfig", id |-> id, fault |-> fault,
               out |-> DeleteConfig(configurations, id, fault)])

\* ConfigService.GetConfigs(connectionID)
ConfigServiceGetConfigs ==
    \E connectionID \in {""} \cup ConnectionIDs :
        Answer([op |-> "ConfigService.GetConfigs", connectionID |-> connectionID,
                out |-> GetConfigs(configurations, connectionID)])

\* ConfigService.GetConfigByID(id)
ConfigServiceGetConfigByID ==
    \E id \in ConfigIDs :
        Answer([op |-> "ConfigService.GetConfigByID", id |-> id,
                out |-> GetConfigByID(configurations, id)])

\* ConfigService.GetConfigByName(name)
ConfigServiceGetConfigByName ==
    \E name \in ConfigNames :
        Answer([op |-> "ConfigService.GetConfigByName", name |-> name,
                out |-> GetConfigByName(configurations, name)])

\* what a CRUDService operation works with after its GetConfigByName(configName)
Named(name) ==
    LET got == GetConfigByName(configurations, name)
    IN [row |-> IF got.err.failed THEN config ELSE got.config,
        env |-> [fault |-> IF got.err.failed THEN "config" ELSE "none", total |-> 1]]

\* CRUDService.List(configName, params)
CRUDServiceListNamed ==
    \E name \in ConfigNames :
        Answer([op |-> "CRUDService.List", name |-> name, before |-> rows,
                out |-> ServiceList(Named(name).row,
                                    QueryParams(GoInt(1), GoInt(10), <<>>, <<>>),
                                    Named(name).env)])

\* CRUDService.Create(configName, data)
CRUDServiceCreateNamed ==
    \E name \in ConfigNames :
        Run([op |-> "CRUDService.Create", name |-> name, before |-> rows,
             out |-> ServiceCreate(schema, Named(name).row, "name" :> GoodName,
                                   Named(name).env, rows)])

\* CRUDService.Update(configName, id, data)
CRUDServiceUpdateNamed ==
    \E name \in ConfigNames :
        Run([op |-> "CRUDService.Update", name |-> name, before |-> rows,
             out |-> ServiceUpdate(schema, Named(name).row, IntV(1), "name" :> GoodName,
                                   Named(name).env, rows)])

\* CRUDService.Delete(configName, id)
CRUDServiceDeleteNamed ==
    \E name \in ConfigNames :
        Run([op |-> "CRUDService.Delete", name |-> name, before |-> rows,
             out |-> ServiceDelete(schema, Named(name).row, IntV(1), Named(name).env, rows)])

\* config.Loader: a document is held decoded, as the types.Config json.Unmarshal
\* makes of it; Malformed stands for the bytes that do not decode
Malformed == [t |-> "malformed"]

LoaderConfig(tableName, createStatement, queryConfig) ==
    [t |-> "Config", TableName |-> tableName, CreateStatement |-> createStatement,
     QueryConfig |-> queryConfig, CreateConfig |-> Nil, UpdateConfig |-> Nil]

LoaderQuery(searchFields, sortableFields) ==
    [t |-> "QueryConfig", Pagination |-> TRUE, SearchFields |-> searchFields,
     SortableFields |-> sortableFields]

\* Loader.validateConfig: the required tags of the configuration and of its search fields
validateConfig(cfg) ==
    /\ cfg.TableName # ""
    /\ cfg.CreateStatement # ""
    /\ HasQueryConfig(cfg) =>
          \A i \in 1..Len(cfg.QueryConfig.SearchFields) :
              /\ cfg.QueryConfig.SearchFields[i].Field # ""
              /\ cfg.QueryConfig.SearchFields[i].Type # ""

\* Loader.LoadFromBytes; setDefaults touches dictionary sources only
LoadFromBytes(data) ==
    CASE data = Malformed -> [err |-> Error("failed to unmarshal config"), config |-> Nil]
      [] ~validateConfig(data) -> [err |-> Error("config validation failed"), config |-> Nil]
      [] OTHER -> [err |-> NoError, config |-> data]

LoaderDocuments ==
    {Malformed,
     LoaderConfig("users", UsersStatement, Nil),
     LoaderConfig("", UsersStatement, Nil),
     LoaderConfig("users", "", Nil),
     LoaderConfig("users", UsersStatement,
                  LoaderQuery(<<SearchField("name", SearchTypeFuzzy)>>, <<"name", "age">>)),
     LoaderConfig("users", UsersStatement,
                  LoaderQuery(<<SearchField("", SearchTypeExact)>>, <<>>)),
     LoaderConfig("users", UsersStatement,
                  LoaderQuery(<<SearchField("name", "")>>, <<>>)),
     LoaderConfig("users", UsersStatement,
                  LoaderQuery(<<SearchField("ghost", SearchTypeExact)>>, <<>>)),
     LoaderConfig("users", UsersStatement, LoaderQuery(<<>>, <<"ghost">>))}

\* Loader.LoadFromBytes(data)
LoaderLoadFromBytes ==
    \E data \in LoaderDocuments :
        Answer([op |-> "Loader.LoadFromBytes", data |-> data, out |-> LoadFromBytes(data)])

NextConfig ==
    \/ ConfigServiceCreateConfig
    \/ ConfigServiceUpdateConfig
    \/ ConfigServiceDeleteConfig
    \/ ConfigServiceGetConfigs
    \/ ConfigServiceGetConfigByID
    \/ ConfigServiceGetConfigByName
    \/ CRUDServiceListNamed
    \/ CRUDServiceCreateNamed
    \/ CRUDServiceUpdateNamed
    \/ CRUDServiceDeleteNamed
    \/ LoaderLoadFromBytes
    \/ Respond

SpecConfig == InitConfig /\ [][NextConfig]_vars

----------------------------------------------------------------------------
(* Properties of the configuration store *)

UpdatedConfig(call) ==
    /\ call.op = "ConfigService.UpdateConfig"
    /\ ~call.out.err.failed

\* C19: every successful ConfigService.UpdateConfig leaves the stored version of the
\* configuration exactly one above the version stored before the call, whatever
\* version the request carries
C19_UpdateIncrementsVersion ==
    [][(pc' = "returned" /\ UpdatedConfig(last'))
          => configurations'[last'.id].Version = configurations[last'.id].Version + 1]_vars

\* the rows of the store that DeleteConfig has deactivated
Deactivated == {i \in DOMAIN configurations : ~configurations[i].IsActive}

ByName == {"CRUDService.List", "CRUDService.Create", "CRUDService.Update",
           "CRUDService.Delete"}

\* DeleteConfig removes no row and changes nothing but is_active of the row named
SoftDeletes(before, call, after) ==
    call.op = "ConfigService.DeleteConfig" =>
        /\ DOMAIN after = DOMAIN before
        /\ \A i \in DOMAIN before :
              after[i] = [before[i] EXCEPT
                            !.IsActive = @ /\ (i # call.id \/ call.out.err.failed)]

\* GetConfigByID answers with the row whether it is active or not
ReadableByID ==
    (last.op = "ConfigService.GetConfigByID" /\ last.id \in DOMAIN configurations)
        => last.out = Found(configurations[last.id])

\* GetConfigs and GetConfigByName answer with no deactivated row
HiddenFromQueries ==
    /\ last.op = "ConfigService.GetConfigs" =>
          \A i \in Deactivated : configurations[i] \notin last.out.configs
    /\ last.op = "ConfigService.GetConfigByName" =>
          \A i \in Deactivated : last.out.err.failed \/ last.out.config # configurations[i]

\* an operation addressed to the name of a deactivated row fails, nothing executed
NotFoundByName ==
    (last.op \in ByName /\ \E i \in Deactivated : configurations[i].Name = last.name)
        => /\ last.out.err = Error("configuration not found")
           /\ last.out.executed = <<>>
           /\ rows = last.before

\* C20: ConfigService.DeleteConfig removes no configuration row, it only sets
\* is_active to false; afterwards GetConfigByID still returns the row, GetConfigs and
\* GetConfigByName do not, and every CRUDService operation addressed to the name of
\* the row fails with a not-found error and leaves the target table alone
C20_DeleteConfigDeactivates ==
    [][pc' = "returned" =>
          /\ SoftDeletes(configurations, last', configurations')
          /\ ReadableByID'
          /\ HiddenFromQueries'
          /\ NotFoundByName']_vars

----------------------------------------------------------------------------
(* Properties of saved and loaded configurations *)

\* the columns of the schema parsed from a create statement
ColumnsOf(createStatement) ==
    LET parsed == ParseCreateStatement(Chars(createStatement))
    IN IF parsed.err.failed THEN {}
       ELSE {parsed.schema.Fields[i].Name : i \in 1..Len(parsed.schema.Fields)}

\* the field names a stored configuration row references
ReferencedByRow(row) ==
    FieldsOf(row.QuerySearchFields) \cup SeqToSet(row.QuerySortableFields)
    \cup FieldsOf(row.CreateCreatableFields) \cup FieldsOf(row.UpdateUpdatableFields)

\* the field names a loaded types.Config references
ReferencedByConfig(cfg) ==
    IF HasQueryConfig(cfg)
    THEN FieldsOf(cfg.QueryConfig.SearchFields) \cup SeqToSet(cfg.QueryConfig.SortableFields)
    ELSE {}

\* C21: saving or loading a configuration fails, and stores nothing, when a search,
\* sortable, creatable or updatable field it references is not a column of the schema
\* parsed from its create statement: every stored and every loaded configuration
\* references only existing columns
C21_ReferencesOnlyColumns ==
    /\ \A i \in DOMAIN configurations :
          ReferencedByRow(configurations[i]) \subseteq ColumnsOf(configurations[i].CreateStatement)
    /\ Succeeded("Loader.LoadFromBytes") =>
          ReferencedByConfig(last.out.config) \subseteq ColumnsOf(last.out.config.CreateStatement)

----------------------------------------------------------------------------
(* Concurrent CRUDService.Create calls on one table: each call is a goroutine that
   reads MAX and later inserts, with no lock and no transaction in between *)

MaxCreates == 2

\* the configuration whose id has the auto_increment default
AutoIncrementConfig ==
    ConfigRow(TRUE, <<>>, <<>>,
              << CreatableField("id", FALSE, "auto_increment", <<>>, Nil),
                 CreatableField("name", TRUE, "", <<>>, Nil) >>,
              <<>>)

CreateBodies == {"name" :> GoodName, ("id" :> IntV(1)) @@ ("name" :> GoodName), <<>>}

Waiting == [pc |-> "idle"]

InitRace ==
    /\ pc = "ready"
    /\ tableInfo = TableInfoOf("extended_user", ExtendedUserFields(TRUE))
    /\ schema = UsersSchema(TRUE)
    /\ config = AutoIncrementConfig
    /\ rows = <<>>
    /\ configurations = <<config>>
    /\ manager = NewManager
    /\ goroutines = [g \in 1..MaxCreates |-> Waiting]
    /\ last = Idle

\* a goroutine enters CRUDService.Create(configName, data)
CreateCalled(g) ==
    /\ goroutines[g].pc = "idle"
    /\ \E data \in CreateBodies, env \in ServiceEnvs \ {[fault |-> "config"]} :
          goroutines' = [goroutines EXCEPT
                           ![g] = [pc |-> "called", data |-> data, env |-> env]]
    /\ UNCHANGED <<pc, tableInfo, schema, config, rows, configurations, manager, last>>

\* the goroutine is past result.Scan(&maxID)
CreateReadMax(g) ==
    /\ goroutines[g].pc = "called"
    /\ goroutines' = [goroutines EXCEPT
                        ![g] = [pc |-> "read", data |-> @.data, env |-> @.env,
                                maxID |-> ReadMax(@.env, rows)]]
    /\ UNCHANGED <<pc, tableInfo, schema, config, rows, configurations, manager, last>>

\* the goroutine is past db.Table(...).Create(&data) and returns
CreateInserted(g) ==
    /\ goroutines[g].pc = "read"
    /\ LET call == goroutines[g]
           out == ServiceCreateFrom(schema, config, call.data, call.env, rows, call.maxID)
       IN /\ MaxID(out.rows) <= MaxRows
          /\ rows' = out.rows
          /\ goroutines' = [goroutines EXCEPT
                              ![g] = [pc |-> "done", data |-> call.data, env |-> call.env,
                                      maxID |-> call.maxID, out |-> out]]
    /\ UNCHANGED <<pc, tableInfo, schema, config, configurations, manager, last>>

\* the caller has the result; the goroutine is free for the next call
CreateReturned(g) ==
    /\ goroutines[g].pc = "done"
    /\ goroutines' = [goroutines EXCEPT ![g] = Waiting]
    /\ UNCHANGED <<pc, tableInfo, schema, config, rows, configurations, manager, last>>

NextRace ==
    \E g \in 1..MaxCreates :
        \/ CreateCalled(g)
        \/ CreateReadMax(g)
        \/ CreateInserted(g)
        \/ CreateReturned(g)

SpecRace == InitRace /\ [][NextRace]_vars

----------------------------------------------------------------------------
(* Properties of concurrent Create calls *)

\* the value a finished Create submitted for id, Nil when it ran no insert
Submitted(call) ==
    LET inserts == InsertsOf(call)
    IN IF Len(inserts) = 0 THEN Nil ELSE ValueOf(inserts[1], "id")

GeneratedID(call) ==
    /\ call.pc = "done"
    /\ "id" \notin DOMAIN call.data
    /\ Len(InsertsOf(call)) > 0

\* C22: the auto_increment emulation of CRUDService.Create is not atomic. The value a
\* Create submits is one above the MAX it read, whatever was inserted since; so two
\* concurrent calls that both read before either inserts submit the same value
C22_SubmitsMaxReadPlusOne ==
    \A g \in 1..MaxCreates :
        GeneratedID(goroutines[g]) =>
            Submitted(goroutines[g]) = IntV(goroutines[g].maxID + 1)

\* both calls have submitted their insert with the same generated value
C22_Witness ==
    /\ GeneratedID(goroutines[1])
    /\ GeneratedID(goroutines[2])
    /\ goroutines[1].env.fault = "none" /\ goroutines[2].env.fault = "none"
    /\ goroutines[1].maxID = goroutines[2].maxID
    /\ Submitted(goroutines[1]) = Submitted(goroutines[2])

----------------------------------------------------------------------------
(* Properties of the defaults of CRUDService.Create *)

\* the MAX query of a Create call failed: a query was due and the read fault was on
MaxQueryFailed(call) ==
    /\ call.env.fault = "read"
    /\ AutoIncremented(call) # {}

\* C24: when the MAX query of the auto_increment policy fails, CRUDService.Create
\* returns an error and inserts nothing; it does not go on with a substituted value
C24_MaxQueryFailureReturned ==
    (Returned("CRUDService.Create") /\ MaxQueryFailed(last)) =>
        /\ last.out.err.failed
        /\ Len(InsertsOf(last)) = 0
        /\ rows = last.before

\* the creatable fields of the configuration that name a default policy
WithDefault ==
    {config.CreateCreatableFields[i].Field : i \in
        {j \in 1..Len(config.CreateCreatableFields) :
            config.CreateCreatableFields[j].DefaultType
                \in {"auto_increment", "current_time", "uuid", "fixed"}}}

\* C25: CRUDService.Create applies a default only to a creatable field that has a
\* defaultType and whose key is absent from the input. In the row it inserts, a value
\* the caller supplied, null and the empty string included, is the caller's, and every
\* field with a default policy that the caller left out is present
C25_DefaultsOnlyForAbsentFields ==
    (Returned("CRUDService.Create") /\ Len(InsertsOf(last)) > 0) =>
        LET insert == InsertsOf(last)[1]
            written == SeqToSet(insert.columns)
        IN /\ \A k \in DOMAIN last.data \cap written : ValueOf(insert, k) = last.data[k]
           /\ WithDefault \ DOMAIN last.data \subseteq written
           /\ written \subseteq DOMAIN last.data \cup WithDefault

----------------------------------------------------------------------------
(* The columns of a table body *)

\* the names of the columns among the definitions, in the order written
ColumnsWritten(definitions) ==
    LET columns == SelectSeq(definitions, LAMBDA d : d.column # "")
    IN [i \in DOMAIN columns |-> columns[i].column]

\* C26: parsing a table body succeeds and yields exactly one column, in the order
\* written, for every top-level definition that is not a table constraint: a comma
\* inside parentheses or quotes splits nothing, a constraint line is dropped whatever
\* its letter case, and a column is kept whatever its name.
C26_OneColumnPerDefinition ==
    (Returned("PostgreSQLParser.ParseCreateStatement") /\ last.definitions # <<>>) =>
        /\ ~last.out.err.failed
        /\ [i \in DOMAIN last.out.schema.Fields |-> last.out.schema.Fields[i].Name]
               = ColumnsWritten(last.definitions)

----------------------------------------------------------------------------
(* The generators as a state machine *)

InitGenerate ==
    /\ pc = "ready"
    /\ \E withKey \in BOOLEAN :
          /\ tableInfo = TableInfoOf("extended_user", ExtendedUserFields(withKey))
          /\ schema = UsersSchema(withKey)
    /\ config \in ListConfigs \cup MutationConfigs \cup DefaultConfigs
    /\ rows = <<>>
    /\ configurations = <<config>>
    /\ manager = NewManager
    /\ goroutines = <<>>
    /\ last = Idle

NextGenerate ==
    \/ GeneratorQuery
    \/ CRUDGeneratorInsert
    \/ CRUDGeneratorUpdate
    \/ CRUDGeneratorDelete
    \/ Respond

SpecGenerate == InitGenerate /\ [][NextGenerate]_vars

----------------------------------------------------------------------------
(* The placeholders of the generated statements *)

\* a piece of a statement's text that ends in the sign of a placeholder
EndsInDollar(piece) == piece \in {"$", " = $", " ILIKE $", " >= $", " <= $"}

\* the number written after the placeholder sign at index i of a text
NumberAt(text, i) == DigitsValue(SubSeq(text, i + 1, Skip(text, i + 1, IsDigit) - 1))

\* the numbers of the placeholders of a text, in the order they appear
PlaceholdersOf(text) ==
    LET at == SelectSeq([i \in 1..Len(text) |-> i], LAMBDA i : EndsInDollar(text[i]))
    IN [k \in DOMAIN at |-> NumberAt(text, at[k])]

\* the placeholders of a text are $1..$n in increasing order, n the number of arguments
Numbered(text, args) == PlaceholdersOf(text) = [k \in 1..Len(args) |-> k]

\* the pieces of a text from index i up to the piece `stop`, separators left out
ListFrom(text, i, stop) ==
    SelectSeq(SubSeq(text, i, Skip(text, i, LAMBDA piece : piece # stop) - 1),
              LAMBDA piece : piece # ", ")

\* every condition or assignment `field <operator> $k` of a text has as its k-th
\* argument the value the request gives for the field under that operator, and every
\* `field IN ($j, ...)` has the elements of the field's list, in order
BoundTo(text, args, valueFor(_, _)) ==
    \A i \in 2..Len(text) :
        /\ text[i] \in {" = $", " ILIKE $", " >= $", " <= $"} =>
              args[NumberAt(text, i)] = valueFor(text[i - 1], text[i])
        /\ text[i] = " IN (" =>
              LET list == PlaceholdersOf(SubSeq(text, i + 1,
                              Skip(text, i + 1, LAMBDA piece : piece # ")") - 1))
              IN [k \in DOMAIN list |-> args[list[k]]] = valueFor(text[i - 1], text[i]).a

\* what a search request asks a field to be compared with
SearchedFor(search, field, operator) ==
    CASE operator = " ILIKE $" -> StrV(<<"%">> \o Sprint(search[field]) \o <<"%">>)
      [] operator = " >= $" -> search[field].m["min"]
      [] operator = " <= $" -> search[field].m["max"]
      [] OTHER -> search[field]

\* C30: in every statement of QueryGenerator.GenerateQuery and of CRUDGenerator's
\* GenerateInsert, GenerateUpdate and GenerateDelete the placeholders are exactly
\* $1..$n, once each and in increasing order, n is the number of arguments, and the
\* k-th argument is the value for $k; in GenerateUpdate the id is the last argument
\* and the one the WHERE condition refers to.
C30_PlaceholdersNumberTheArguments ==
    /\ (Returned("QueryGenerator.GenerateQuery") /\ ~last.out.err.failed) =>
          /\ Numbered(last.out.query, last.out.args)
          /\ Numbered(last.out.countQuery, last.out.args)
          /\ BoundTo(last.out.query, last.out.args,
                     LAMBDA f, o : SearchedFor(last.params.Search, f, o))
          /\ BoundTo(last.out.countQuery, last.out.args,
                     LAMBDA f, o : SearchedFor(last.params.Search, f, o))
    /\ (Returned("CRUDGenerator.GenerateInsert") /\ ~last.out.err.failed) =>
          LET columns == ListFrom(last.text.query, 4, ") VALUES (")
          IN /\ Numbered(last.text.query, last.text.values)
             /\ Len(columns) = Len(last.text.values)
             /\ \A k \in DOMAIN columns : last.text.values[k] = last.data[columns[k]]
    /\ (Returned("CRUDGenerator.GenerateUpdate") /\ ~last.out.err.failed) =>
          LET n == Len(last.text.values)
              where == CHOOSE i \in 1..Len(last.text.query) : last.text.query[i] = " WHERE "
          IN /\ Numbered(last.text.query, last.text.values)
             /\ BoundTo(SubSeq(last.text.query, 1, where), last.text.values,
                        LAMBDA f, o : last.data[f])
             /\ last.text.values[n] = last.id
             /\ NumberAt(last.text.query, where + 2) = n
    /\ (Returned("CRUDGenerator.GenerateDelete") /\ ~last.out.err.failed) =>
          /\ Numbered(last.text.query, last.text.values)
          /\ last.text.values = <<last.id>>

\* an update of two fields has been generated: two SET parts and the WHERE condition
C30_Witness ==
    /\ Returned("CRUDGenerator.GenerateUpdate") /\ ~last.out.err.failed
    /\ Len(last.text.values) = 3
    /\ PlaceholdersOf(last.text.query) = <<1, 2, 3>>

----------------------------------------------------------------------------
(* database.DatabaseManager: the connection pool and its configuration *)

\* goroutines calling the manager, and the calls they make in all
MaxCallers == 2
MaxCalls == 3

Callers == 1..MaxCallers

\* configs/db.json: the connections the configuration file describes
FileConfigs == {"main"}

\* the calls: the method and its connection id; a memory configuration is given for
\* a connection the file does not describe
PoolCalls ==
    {[op |-> o, id |-> i] :
        o \in {"GetConnection", "RemoveConnection", "RefreshConnection",
               "GetConnectionConfig"},
        i \in ConnectionIDs}
    \cup {[op |-> "SetMemoryConfig", id |-> i] : i \in ConnectionIDs \ FileConfigs}
    \cup {[op |-> o, id |-> ""] :
            o \in {"RefreshAllConnections", "Close", "GetAllConnectionIDs"}}

\* where a method starts
Entry(op) ==
    CASE op \in {"GetAllConnectionIDs", "GetConnectionConfig"} -> "LoadConfigs"
      [] op = "RefreshConnection" -> "RemoveConnection"
      [] OTHER -> op

\* a createConnection that does not look at the pool again
DoubleCheckSkipped(m, connectionID) == FALSE

\* dm.pool.connections[connectionID] exists
Cached(m, connectionID) == connectionID \in DOMAIN m.connections

\* the double check of createConnection, made with the exclusive lock held
DoubleCheck(m, connectionID) == Cached(m, connectionID)

\* what a call returns: an error message ("" for none), the handle (0 for nil),
\* whether the handle's sql.DB is open when it is returned, and the ids listed
Handle(m, db) == [err |-> "", db |-> db, open |-> db \notin m.closed, ids |-> {}]
Failure(msg) == [err |-> msg, db |-> 0, open |-> FALSE, ids |-> {}]
Listed(ids) == [err |-> "", db |-> 0, open |-> FALSE, ids |-> ids]

Returning(routine, result) == [pc |-> "done", op |-> routine.op, id |-> routine.id,
                               db |-> 0, result |-> result]
Moving(routine, to) == [routine EXCEPT !.pc = to]

At(g, place) == goroutines[g].pc = place

\* one step of goroutine g
Step(g, routine, m) ==
    /\ ~manager.crashed
    /\ goroutines' = [goroutines EXCEPT ![g] = routine]
    /\ manager' = m
    /\ UNCHANGED <<pc, tableInfo, schema, config, rows, configurations, last>>

\* the handles of the pool
Pooled(m) == {m.connections[k] : k \in DOMAIN m.connections}

Without(connections, connectionID) ==
    [k \in DOMAIN connections \ {connectionID} |-> connections[k]]

\* a goroutine calls a method of the manager
PoolCall(g) ==
    /\ At(g, "idle")
    /\ manager.calls < MaxCalls
    /\ \E c \in PoolCalls :
          Step(g, [pc |-> Entry(c.op), op |-> c.op, id |-> c.id, db |-> 0,
                   result |-> Failure("")],
               [manager EXCEPT !.calls = @ + 1])

\* GetConnection: RLock, the lookup in the pool, RUnlock
GetConnection(g) ==
    /\ At(g, "GetConnection")
    /\ manager.writer = 0
    /\ LET r == goroutines[g]
       IN Step(g, IF Cached(manager, r.id)
                  THEN Returning(r, Handle(manager, manager.connections[r.id]))
                  ELSE Moving(r, "createConnection"),
               manager)

\* createConnection: Lock and the double check; the lock is kept until the return
createConnection(g) ==
    /\ At(g, "createConnection")
    /\ manager.writer = 0
    /\ LET r == goroutines[g]
       IN IF DoubleCheck(manager, r.id)
          THEN Step(g, Returning(r, Handle(manager, manager.connections[r.id])), manager)
          ELSE Step(g, Moving(r, "LoadConfigs"), [manager EXCEPT !.writer = g])

\* LoadConfigs: dm.dbConfigs = make(models.DatabaseConfigs)
LoadConfigs(g) ==
    /\ At(g, "LoadConfigs")
    /\ Step(g, Moving(goroutines[g], "mergeFile"), [manager EXCEPT !.dbConfigs = {}])

\* LoadConfigs: the file is read and its configurations are merged
LoadConfigsFile(g) ==
    /\ At(g, "mergeFile")
    /\ Step(g, Moving(goroutines[g], "mergeMemory"),
            [manager EXCEPT !.dbConfigs = @ \cup FileConfigs])

\* where a method goes on after LoadConfigs, or what it returns when LoadConfigs fails
AfterLoad(r, failed) ==
    CASE r.op \in {"GetConnection", "RefreshConnection"} ->
            IF failed THEN Returning(r, Failure("failed to reload configs"))
            ELSE Moving(r, "lookup")
      [] r.op = "RefreshAllConnections" ->
            Returning(r, Failure(IF failed THEN "no database configurations found" ELSE ""))
      [] r.op = "GetAllConnectionIDs" ->
            IF failed THEN Returning(r, Listed({})) ELSE Moving(r, "ids")
      [] r.op = "GetConnectionConfig" ->
            IF failed THEN Returning(r, Failure("no database configurations found"))
            ELSE Moving(r, "config")

\* LoadConfigs: the memory configurations are merged, and an empty result is an error;
\* a method that holds the lock releases it when it returns
LoadConfigsMemory(g) ==
    /\ At(g, "mergeMemory")
    /\ LET r == goroutines[g]
           merged == manager.dbConfigs \cup manager.memoryConfigs
           next == AfterLoad(r, merged = {})
       IN Step(g, next,
               [manager EXCEPT !.dbConfigs = merged,
                               !.writer = IF next.pc = "done" /\ @ = g THEN 0 ELSE @])

\* createConnection: dbConfig, exists := dm.dbConfigs[connectionID]
createConnectionLookup(g) ==
    /\ At(g, "lookup")
    /\ LET r == goroutines[g]
       IN IF r.id \in manager.dbConfigs
          THEN Step(g, Moving(r, "open"), manager)
          ELSE Step(g, Returning(r, Failure("connection not found in configuration")),
                    [manager EXCEPT !.writer = 0])

\* createConnection: buildDSN and gorm.Open
createConnectionOpen(g) ==
    /\ At(g, "open")
    /\ LET r == goroutines[g]
       IN \E ok \in BOOLEAN :
             IF ok
             THEN Step(g, [r EXCEPT !.pc = "ping", !.db = Len(manager.opened) + 1],
                       [manager EXCEPT
                           !.opened = Append(@, [id |-> r.id, pinged |-> FALSE])])
             ELSE Step(g, Returning(r, Failure("failed to connect to database")),
                       [manager EXCEPT !.writer = 0])

\* createConnection: sqlDB.Ping, and the handle is cached
createConnectionPing(g) ==
    /\ At(g, "ping")
    /\ LET r == goroutines[g]
       IN \E ok \in BOOLEAN :
             IF ok
             THEN LET m == [manager EXCEPT !.connections = (r.id :> r.db) @@ @,
                                           !.opened[r.db].pinged = TRUE,
                                           !.writer = 0]
                  IN Step(g, Returning(r, Handle(m, r.db)), m)
             ELSE Step(g, Returning(r, Failure("failed to ping database")),
                       [manager EXCEPT !.writer = 0])

\* GetAllConnectionIDs: the keys of dm.dbConfigs after LoadConfigs
GetAllConnectionIDs(g) ==
    /\ At(g, "ids")
    /\ Step(g, Returning(goroutines[g], Listed(manager.dbConfigs)), manager)

\* GetConnectionConfig: dm.dbConfigs[connectionID] after LoadConfigs
GetConnectionConfig(g) ==
    /\ At(g, "config")
    /\ LET r == goroutines[g]
       IN Step(g, Returning(r, IF r.id \in manager.dbConfigs THEN Listed({r.id})
                               ELSE Failure("connection not found")),
               manager)

\* SetMemoryConfig: dm.memoryConfigs[connectionID] = config, with no lock
SetMemoryConfig(g) ==
    /\ At(g, "SetMemoryConfig")
    /\ LET r == goroutines[g]
       IN Step(g, Returning(r, Failure("")),
               [manager EXCEPT !.memoryConfigs = @ \cup {r.id}])

\* RemoveConnection: under the lock, the handle is closed and deleted from the pool;
\* RefreshConnection goes on with GetConnection
RemoveConnection(g) ==
    /\ At(g, "RemoveConnection")
    /\ manager.writer = 0
    /\ LET r == goroutines[g]
           m == IF Cached(manager, r.id)
                THEN [manager EXCEPT !.closed = @ \cup {manager.connections[r.id]},
                                     !.connections = Without(@, r.id)]
                ELSE manager
       IN Step(g, IF r.op = "RefreshConnection" THEN Moving(r, "GetConnection")
                  ELSE Returning(r, Failure("")),
               m)

\* RefreshAllConnections: under the lock, every handle is closed and deleted; the lock
\* is kept for LoadConfigs
RefreshAllConnections(g) ==
    /\ At(g, "RefreshAllConnections")
    /\ manager.writer = 0
    /\ Step(g, Moving(goroutines[g], "LoadConfigs"),
            [manager EXCEPT !.closed = @ \cup Pooled(manager), !.connections = <<>>,
                            !.writer = g])

\* Close: under the lock, every handle of the pool is closed, and the main database
Close(g) ==
    /\ At(g, "Close")
    /\ manager.writer = 0
    /\ Step(g, Returning(goroutines[g], Failure("")),
            [manager EXCEPT !.closed = @ \cup Pooled(manager), !.mainClosed = TRUE])

\* the caller has the result
PoolReturn(g) ==
    /\ At(g, "done")
    /\ Step(g, Waiting, manager)

\* the places where a goroutine is about to write dm.dbConfigs, and to read it
WritesConfigs == {"LoadConfigs", "mergeFile", "mergeMemory"}
ReadsConfigs == {"lookup", "ids", "config"}

\* two goroutines are in dm.dbConfigs at once, one of them writing: the runtime may
\* abort the program (concurrent map read and map write)
ConcurrentMapAccess ==
    /\ ~manager.crashed
    /\ \E g, h \in Callers :
          /\ g # h
          /\ goroutines[g].pc \in WritesConfigs \ {"LoadConfigs"}
          /\ goroutines[h].pc \in WritesConfigs \cup ReadsConfigs
    /\ manager' = [manager EXCEPT !.crashed = TRUE]
    /\ UNCHANGED <<pc, tableInfo, schema, config, rows, configurations, goroutines, last>>

InitPool ==
    /\ pc = "ready"
    /\ tableInfo = TableInfoOf("extended_user", ExtendedUserFields(TRUE))
    /\ schema = UsersSchema(TRUE)
    /\ config = ConfigRow(TRUE, <<>>, <<>>, <<>>, <<>>)
    /\ rows = <<>>
    /\ configurations = <<config>>
    /\ manager = NewManager
    /\ goroutines = [g \in Callers |-> Waiting]
    /\ last = Idle

NextPool ==
    \/ \E g \in Callers :
          \/ PoolCall(g)
          \/ GetConnection(g)
          \/ createConnection(g)
          \/ LoadConfigs(g)
          \/ LoadConfigsFile(g)
          \/ LoadConfigsMemory(g)
          \/ createConnectionLookup(g)
          \/ createConnectionOpen(g)
          \/ createConnectionPing(g)
          \/ GetAllConnectionIDs(g)
          \/ GetConnectionConfig(g)
          \/ SetMemoryConfig(g)
          \/ RemoveConnection(g)
          \/ RefreshAllConnections(g)
          \/ Close(g)
          \/ PoolReturn(g)
    \/ ConcurrentMapAccess

SpecPool == InitPool /\ [][NextPool]_vars

----------------------------------------------------------------------------
(* Properties of the connection pool *)

\* the places of createConnection and LoadConfigs where configuration is reloaded from
\* disk, the connection is opened, or the database is pinged
ConnectionWork == {"LoadConfigs", "mergeFile", "mergeMemory", "open", "ping"}

\* C23: a GetConnection for an id that is already cached never waits for another
\* goroutine's connection work: the exclusive lock of the pool is not held while
\* configuration is reloaded, a connection is opened or the database is pinged.
C23_CachedReadNeverWaitsForConnectionWork ==
    \A g, h \in Callers :
        ~ /\ At(g, "GetConnection")
          /\ Cached(manager, goroutines[g].id)
          /\ manager.writer = h
          /\ goroutines[h].pc \in ConnectionWork

\* a call of GetConnection (RefreshConnection ends with one) has returned a handle
GotConnection(g) ==
    /\ At(g, "done")
    /\ goroutines[g].op \in {"GetConnection", "RefreshConnection"}
    /\ goroutines[g].result.err = ""

\* the handles opened for an id whose ping succeeded
Pinged(connectionID) ==
    {h \in DOMAIN manager.opened :
        manager.opened[h].id = connectionID /\ manager.opened[h].pinged}

\* C27: as long as the manager has closed no handle, whatever the interleaving of the
\* calls, at most one connection is opened and stored for an id, every successful
\* GetConnection for the id returns that handle, and the pool holds only handles that
\* were opened for their id and pinged successfully (a failed attempt stores nothing).
C27_OneHandlePerConnection ==
    manager.closed = {} =>
        /\ \A id \in ConnectionIDs : Cardinality(Pinged(id)) <= 1
        /\ \A g \in Callers :
              GotConnection(g) =>
                  /\ Cached(manager, goroutines[g].id)
                  /\ manager.connections[goroutines[g].id] = goroutines[g].result.db
        /\ \A id \in DOMAIN manager.connections :
              manager.connections[id] \in Pinged(id)

\* one goroutine has opened and stored the connection of an id while another, which
\* had found the pool without it, is about to take the lock in createConnection
C27_Witness ==
    \E g, h \in Callers :
        /\ g # h
        /\ GotConnection(g) /\ goroutines[g].op = "GetConnection"
        /\ At(h, "createConnection") /\ goroutines[h].id = goroutines[g].id
        /\ Cached(manager, goroutines[g].id)
        /\ manager.closed = {}

\* C28: the pool never hands out a handle the manager has closed: a successful
\* GetConnection returns a handle whose database is open when it is returned.
C28_NoClosedHandleReturned ==
    \A g \in Callers :
        (GotConnection(g) /\ goroutines[g].op = "GetConnection") =>
            goroutines[g].result.open

\* C29: a GetConnection for an id the configuration file describes never fails with
\* 'connection not found', whatever runs beside it.
C29_ConfiguredConnectionFound ==
    \A g \in Callers :
        (At(g, "done") /\ goroutines[g].op = "GetConnection"
                       /\ goroutines[g].id \in FileConfigs) =>
            goroutines[g].result.err # "connection not found in configuration"

====
